---- MODULE Spec2Model ----
(***************************************************************************)
(* A model of the satelles TLE text pipeline (src/src/satelles/tle.py):    *)
(* the line grammars, the field decoders and the record assembler.         *)
(*                                                                         *)
(* A Python str is a sequence of one-character strings.  A Python value of *)
(* unknown type (typing.Any) is a record [t |-> type tag, v |-> payload].  *)
(* A Python float is modelled by the exact decimal it denotes, a record    *)
(* [neg, ip, fd]: sign, integer part and the fraction digits without       *)
(* trailing zeros; binary rounding is not modelled.                        *)
(* The alphabet is ASCII: the Unicode digits, letters and separators that  *)
(* \d, \s, str.isalpha and str.splitlines also accept are not drawn.       *)
(***************************************************************************)
EXTENDS Integers, Sequences, FiniteSets, TLC

VARIABLES pc, fn, given, arg, ret, interpolator

vars == <<pc, fn, given, arg, ret, interpolator>>

----------------------------------------------------------------------------
(* Characters *)

Digits == {"0", "1", "2", "3", "4", "5", "6", "7", "8", "9"}

UpperAZ == {"A", "B", "C", "D", "E", "F", "G", "H", "I", "J", "K", "L", "M",
            "N", "O", "P", "Q", "R", "S", "T", "U", "V", "W", "X", "Y", "Z"}

LowerAZ == {"a", "b", "c", "d", "e", "f", "g", "h", "i", "j", "k", "l", "m",
            "n", "o", "p", "q", "r", "s", "t", "u", "v", "w", "x", "y", "z"}

Whitespace == {" ", "\t", "\n", "\r", "\f"}

SignChars == {"+", "-"}

Alphabet36 == <<"0", "1", "2", "3", "4", "5", "6", "7", "8", "9",
                "A", "B", "C", "D", "E", "F", "G", "H", "I", "J", "K", "L", "M",
                "N", "O", "P", "Q", "R", "S", "T", "U", "V", "W", "X", "Y", "Z">>

LowerSeq == <<"a", "b", "c", "d", "e", "f", "g", "h", "i", "j", "k", "l", "m",
              "n", "o", "p", "q", "r", "s", "t", "u", "v", "w", "x", "y", "z">>

\* str.upper on one ASCII character.
UpperChar(c) ==
    IF c \in LowerAZ
    THEN Alphabet36[10 + (CHOOSE i \in 1..26 : LowerSeq[i] = c)]
    ELSE c

\* str.upper
StrUpper(s) == [i \in 1..Len(s) |-> UpperChar(s[i])]

\* str.isalpha on one character.
IsAlpha(c) == c \in UpperAZ \cup LowerAZ

\* The value of a character as a digit in bases up to 36, or 36 if it is none.
DigitValue(c) ==
    LET u == UpperChar(c)
    IN IF \E i \in 1..36 : Alphabet36[i] = u
       THEN (CHOOSE i \in 1..36 : Alphabet36[i] = u) - 1
       ELSE 36

----------------------------------------------------------------------------
(* Strings *)

SetMin(S) == CHOOSE x \in S : \A y \in S : x <= y

SetMax(S) == CHOOSE x \in S : \A y \in S : y <= x

\* The slice s[first - 1 : last] of a str, cut to the length of s.
Slice(s, first, last) == SubSeq(s, first, IF last < Len(s) THEN last ELSE Len(s))

\* s cut down to the span of the positions kept.
Span(s, kept) == IF kept = {} THEN <<>> ELSE SubSeq(s, SetMin(kept), SetMax(kept))

\* str.strip
StrStrip(s) == Span(s, {i \in 1..Len(s) : s[i] \notin Whitespace})

\* The lines of s given the positions where a line terminator starts: the
\* k-th line runs from the end of terminator k - 1 to the start of terminator k.
LinesBetween(s, breaks) ==
    LET n == Cardinality(breaks)
        break(k) == CHOOSE b \in breaks : Cardinality({c \in breaks : c <= b}) = k
        after(b) == IF s[b] = "\r" /\ b < Len(s) /\ s[b + 1] = "\n"
                    THEN b + 2 ELSE b + 1
        start(k) == IF k = 1 THEN 1 ELSE after(break(k - 1))
    IN [k \in 1..n |-> SubSeq(s, start(k), break(k) - 1)]
       \o (IF start(n + 1) > Len(s) THEN <<>>
           ELSE <<SubSeq(s, start(n + 1), Len(s))>>)

\* str.splitlines: the text is cut at "\n", "\r\n", "\r" and "\f"; the
\* terminators are dropped and a final terminator opens no further line.
StrSplitLines(s) ==
    LinesBetween(s, {i \in 1..Len(s) :
                        /\ s[i] \in {"\n", "\r", "\f"}
                        /\ ~(s[i] = "\n" /\ i > 1 /\ s[i - 1] = "\r")})

----------------------------------------------------------------------------
(* Regular expressions: a pattern is a sequence of items, each a character *)
(* class repeated lo..hi times (hi = -1: unbounded) inside a named group   *)
(* ("" for none).  The pattern is anchored at both ends (^ ... $).  An    *)
(* optional block (?: ... )? is marked on its first item.                  *)

Item(cls, lo, hi, group) == [cls |-> cls, lo |-> lo, hi |-> hi, group |-> group]

\* \s, exactly one character
WsOne == Item(Whitespace, 1, 1, "")

WsPlus == Item(Whitespace, 1, -1, "")

NoMatch == [ok |-> FALSE, ends |-> <<>>]

\* The length of the run of characters before the first of others in i..last.
RunUpTo(i, last, others) ==
    IF others # {} THEN SetMin(others) - i
    ELSE IF last < i THEN 0 ELSE last - i + 1

\* The length of the longest run of class characters at position i that
\* ends at or before position last.
RunLength(s, i, cls, last) ==
    RunUpTo(i, last, {j \in i..last : s[j] \notin cls})

\* The last position an item may reach from position i.
Reach(s, i, item) ==
    IF item.hi = -1 \/ i + item.hi - 1 > Len(s) THEN Len(s) ELSE i + item.hi - 1

\* A faulty AtEnd: a pattern without its final $ matches a prefix.
AtEndUnanchored(s, i) == TRUE

\* $ matches at the end of the string and before a final newline.
AtEnd(s, i) == i = Len(s) + 1 \/ (i = Len(s) /\ s[i] = "\n")

\* Whether the ends a are preferred to the ends b: at the first item where
\* they differ, a took the longer run (an item is greedy, and an optional block
\* is entered before it is skipped).
Preferred(a, b) ==
    \E k \in 1..Len(a) : a[k] > b[k] /\ \A j \in 1..(k - 1) : a[j] = b[j]

\* Of the complete matches, the one the backtracking search finds first.
Longest(good) ==
    IF good = {} THEN NoMatch
    ELSE [ok |-> TRUE,
          ends |-> (CHOOSE p \in good :
                       \A q \in good : q = p \/ Preferred(p.ends, q.ends)).ends]

\* The first item of an optional block (?: ... )? of span items.
OptionalItem(cls, lo, hi, group, span) ==
    [cls |-> cls, lo |-> lo, hi |-> hi, group |-> group, optional |-> span]

\* The number of items of the optional block that starts at the item, or 0.
BlockSpan(item) == IF "optional" \in DOMAIN item THEN item.optional ELSE 0

\* Faulty Skips: a block (?: ... ) that lacks its ? cannot be skipped.
SkipsNone(item) == {}

\* The ways to skip the optional block that starts at item k, as repetition
\* counts: none without a block, and -span for a block of span items.
Skips(item) == {-BlockSpan(item)} \ {0}

\* Faulty Steps: an item of a lower limit above 1 takes one character fewer.
StepsOneFewer(item, s, p) ==
    {[at |-> p.at + n, skip |-> 0, ends |-> <<p.at + n>>] :
       n \in (IF item.lo > 1 THEN item.lo - 1 ELSE item.lo)..
             RunLength(s, p.at, item.cls, Reach(s, p.at, item))}

\* The ways one item continues a partial match p that stands at position
\* p.at: inside a skipped block the item ends where it starts; otherwise it
\* takes lo..hi characters of its class, or skips the block it starts.
Steps(item, s, p) ==
    IF p.skip > 0
    THEN {[at |-> p.at, skip |-> p.skip - 1, ends |-> <<p.at>>]}
    ELSE {[at |-> p.at + n, skip |-> 0, ends |-> <<p.at + n>>] :
            n \in item.lo..RunLength(s, p.at, item.cls, Reach(s, p.at, item))}
         \cup {[at |-> p.at, skip |-> -n - 1, ends |-> <<p.at>>] : n \in Skips(item)}

\* A partial match p followed by each of the partial matches qs that start
\* where it stands.
Extended(p, qs) ==
    {[at |-> q.at, skip |-> q.skip, ends |-> p.ends \o q.ends] : q \in qs}

\* Every way the items a..b match from the partial match p on, each with the
\* end position of every item.
RECURSIVE MatchFrom(_, _, _, _, _)
MatchFrom(pat, a, b, s, p) ==
    IF a = b THEN Steps(pat[a], s, p)
    ELSE UNION {Extended(q, MatchFrom(pat, (a + b) \div 2 + 1, b, s, q)) :
                  q \in MatchFrom(pat, a, (a + b) \div 2, s, p)}

\* The match object: whether the pattern matched, and the groups by name.
GroupsOf(pat, s, r) ==
    [ok |-> r.ok,
     group |-> [name \in {pat[k].group : k \in 1..Len(pat)} |->
                   IF ~r.ok THEN <<>>
                   ELSE SubSeq(s,
                               IF \E k \in 1..Len(pat) : pat[k].group = name /\ k = 1
                               THEN 1
                               ELSE r.ends[SetMin({k \in 1..Len(pat) :
                                                   pat[k].group = name}) - 1],
                               r.ends[SetMax({k \in 1..Len(pat) :
                                              pat[k].group = name})] - 1)]]

\* re.Pattern.match: the preferred match that ends where $ matches
RegexMatch(pat, s) ==
    GroupsOf(pat, s,
             Longest({p \in MatchFrom(pat, 1, Len(pat), s,
                                      [at |-> 1, skip |-> 0, ends |-> <<>>]) :
                        AtEnd(s, p.at)}))

\* Match.group(name): the characters consumed by the items of the group.
Group(m, name) == m.group[name]

line1_regex ==
    << Item({"1"}, 1, 1, ""), WsPlus,
       Item(Digits \cup UpperAZ, 5, 5, "id"),
       Item(UpperAZ, 1, 1, "classification"), WsPlus,
       Item(Digits, 2, 2, "designator"), Item(Digits, 3, 3, "designator"),
       Item(UpperAZ, 1, 3, "designator"), WsPlus,
       Item(Digits, 2, 2, "year"),
       Item(Digits, 3, 3, "day"), Item({"."}, 1, 1, "day"),
       Item(Digits, 8, 8, "day"), WsPlus,
       Item(SignChars, 0, 1, "first_derivative_of_mean_motion"),
       Item({"."}, 1, 1, "first_derivative_of_mean_motion"),
       Item(Digits, 8, 8, "first_derivative_of_mean_motion"), WsPlus,
       Item(SignChars, 0, 1, "second_derivative_of_mean_motion"),
       Item(Digits, 5, 5, "second_derivative_of_mean_motion"),
       Item(SignChars, 1, 1, "second_derivative_of_mean_motion"),
       Item(Digits, 1, 1, "second_derivative_of_mean_motion"), WsPlus,
       Item(SignChars, 0, 1, "drag"), Item(Digits, 5, 5, "drag"),
       Item(SignChars, 1, 1, "drag"), Item(Digits, 1, 1, "drag"), WsPlus,
       Item(Digits, 1, 1, "ephemeris"), WsPlus,
       Item(Digits, 1, -1, "set") >>

line2_regex ==
    << Item({"2"}, 1, 1, ""), WsPlus,
       Item(Digits \cup UpperAZ, 5, 5, "id"), WsPlus,
       Item(Digits, 1, -1, "inclination"), Item({"."}, 1, 1, "inclination"),
       Item(Digits, 1, -1, "inclination"), WsPlus,
       Item(Digits, 1, -1, "raan"), Item({"."}, 1, 1, "raan"),
       Item(Digits, 1, -1, "raan"), WsPlus,
       Item(Digits, 7, 7, "eccentricity"), WsPlus,
       Item(Digits, 1, -1, "argument_of_perigee"),
       Item({"."}, 1, 1, "argument_of_perigee"),
       Item(Digits, 1, -1, "argument_of_perigee"), WsPlus,
       Item(Digits, 1, -1, "mean_anomaly"), Item({"."}, 1, 1, "mean_anomaly"),
       Item(Digits, 1, -1, "mean_anomaly"), WsPlus,
       Item(Digits, 1, -1, "mean_motion"), Item({"."}, 1, 1, "mean_motion"),
       Item(Digits, 1, -1, "mean_motion"), WsPlus,
       Item(Digits, 1, -1, "number_of_revolutions") >>

\* \S, over the characters drawn
NonSpace ==
    Digits \cup UpperAZ \cup LowerAZ \cup SignChars \cup {".", "_", "(", ")", "/"}

\* The items of a literal text.
Literal(text) == [i \in 1..Len(text) |-> Item({text[i]}, 1, 1, "")]

\* A faulty Number: \d{lo,} in place of \d{lo,hi}
NumberAtLeast(lo, hi, group) == <<Item(Digits, lo, -1, group), WsPlus>>

\* \d{lo,hi} in a group, followed by \s+
Number(lo, hi, group) == <<Item(Digits, lo, hi, group), WsPlus>>

\* A faulty SignedDecimalGroup: [+-]?\d+\.\d{1,places}
SignedDecimalUpTo(group, places) ==
    << Item(SignChars, 0, 1, group), Item(Digits, 1, -1, group),
       Item({"."}, 1, 1, group), Item(Digits, 1, places, group) >>

\* A faulty SignedDecimalGroup: \d+\.\d{places}, without the sign
UnsignedDecimalGroup(group, places) ==
    << Item(Digits, 1, -1, group),
       Item({"."}, 1, 1, group), Item(Digits, places, places, group) >>

\* [+-]?\d+\.\d{places} in a group
SignedDecimalGroup(group, places) ==
    << Item(SignChars, 0, 1, group), Item(Digits, 1, -1, group),
       Item({"."}, 1, 1, group), Item(Digits, places, places, group) >>

h1_regex ==
    Literal(<<"H", "1">>) \o <<WsPlus>> \o Literal(<<"C", "P", "F">>) \o <<WsPlus>>
    \o Number(1, 1, "version")
    \o << Item(Digits \cup UpperAZ \cup LowerAZ, 3, 3, "ephemeris_source"), WsPlus >>
    \o Number(4, 4, "year") \o Number(1, 2, "month") \o Number(1, 2, "day")
    \o Number(1, 2, "hour") \o Number(1, 3, "ephemeris_sequence_number")
    \o Number(1, 2, "sub_daily_sequence_number")
    \o << Item(NonSpace, 1, 10, "target_name"),
          OptionalItem(Whitespace, 1, -1, "", 2), Item(NonSpace, 1, 10, "notes") >>

h2_regex ==
    Literal(<<"H", "2">>) \o <<WsPlus>>
    \o Number(1, 8, "cospar_id") \o Number(1, 4, "sic") \o Number(1, 8, "norad_id")
    \o Number(4, 4, "start_year") \o Number(1, 2, "start_month")
    \o Number(1, 2, "start_day") \o Number(1, 2, "start_hour")
    \o Number(1, 2, "start_minute") \o Number(1, 2, "start_second")
    \o Number(4, 4, "end_year") \o Number(1, 2, "end_month")
    \o Number(1, 2, "end_day") \o Number(1, 2, "end_hour")
    \o Number(1, 2, "end_minute") \o Number(1, 2, "end_second")
    \o Number(1, 5, "interval") \o Number(1, 1, "tiv_compat")
    \o Number(1, 1, "target_class") \o Number(1, 2, "reference_frame")
    \o Number(1, 1, "rot_angle_type") \o Number(1, 1, "com_correction")
    \o << Item(Digits, 1, 2, "location_dynamics") >>

e10_regex ==
    Literal(<<"1", "0">>) \o <<WsPlus>>
    \o << Item({"0", "1", "2"}, 1, 1, "direction"), WsPlus >>
    \o Number(1, 5, "mjd")
    \o << Item(Digits, 1, -1, "seconds"), Item({"."}, 1, 1, "seconds"),
          Item(Digits, 1, 6, "seconds"), WsPlus >>
    \o Number(1, 2, "leap_second")
    \o SignedDecimalGroup("x", 3) \o <<WsPlus>>
    \o SignedDecimalGroup("y", 3) \o <<WsPlus>>
    \o SignedDecimalGroup("z", 3)

e20_regex ==
    Literal(<<"2", "0">>) \o <<WsPlus>>
    \o << Item({"0", "1", "2"}, 1, 1, "direction"), WsPlus >>
    \o SignedDecimalGroup("vx", 6) \o <<WsPlus>>
    \o SignedDecimalGroup("vy", 6) \o <<WsPlus>>
    \o SignedDecimalGroup("vz", 6)

----------------------------------------------------------------------------
(* Python values and call outcomes *)

None == [t |-> "None"]

StrVal(s) == [t |-> "str", v |-> s]

IntVal(n) == [t |-> "int", v |-> n]

FloatVal(d) == [t |-> "float", v |-> d]

TupleVal(xs) == [t |-> "tuple", v |-> xs]

IsStr(x) == x.t = "str"

Return(x) == [kind |-> "return", val |-> x]

Raise(e) == [kind |-> "raise", val |-> [t |-> e]]

Pending == [kind |-> "pending"]

\* Match.group(name): None for a group that took no part in the match.  Every
\* group of the patterns holds at least one character when it takes part.
GroupOrNone(m, name) ==
    IF Group(m, name) = <<>> THEN None ELSE StrVal(Group(m, name))

\* What Pattern.match returns: a match object with its named groups, or None.
MatchObject(m) ==
    IF m.ok
    THEN [t |-> "Match",
          v |-> [name \in DOMAIN m.group \ {""} |-> GroupOrNone(m, name)]]
    ELSE None

----------------------------------------------------------------------------
(* Exact decimals *)

RECURSIVE Pow10(_)
Pow10(k) == IF k = 0 THEN 1 ELSE 10 * Pow10(k - 1)

RECURSIVE DigitsToNat(_, _, _)
DigitsToNat(ds, base, acc) ==
    IF ds = <<>> THEN acc
    ELSE DigitsToNat(Tail(ds), base, acc * base + Head(ds))

\* The last width decimal digits of n, most significant first.
NatToDigits(n, width) == [i \in 1..width |-> (n \div Pow10(width - i)) % 10]

\* ds without its trailing zeros
StripTrailingZeros(ds) ==
    SubSeq(ds, 1, SetMax({0} \cup {i \in 1..Len(ds) : ds[i] # 0}))

DecCanonical(neg, ip, fd) == [neg |-> neg /\ ~(ip = 0 /\ fd = <<>>), ip |-> ip, fd |-> fd]

\* The canonical decimal: no trailing fraction zeros, and -0.0 == 0.0.
Dec(neg, ip, fd) == DecCanonical(neg, ip, StripTrailingZeros(fd))

DecZero == [neg |-> FALSE, ip |-> 0, fd |-> <<>>]

DecFromInt(n) == [neg |-> n < 0, ip |-> IF n < 0 THEN -n ELSE n, fd |-> <<>>]

DecNegate(d) == Dec(~d.neg, d.ip, d.fd)

\* d * 10^k for k >= 0, given the fraction digits followed by k zeros
DecShiftLeft(d, k, padded) ==
    Dec(d.neg, d.ip * Pow10(k) + DigitsToNat(SubSeq(padded, 1, k), 10, 0),
        SubSeq(padded, k + 1, Len(padded)))

\* d * 10^k
DecShift(d, k) ==
    IF k >= 0 THEN DecShiftLeft(d, k, d.fd \o [i \in 1..k |-> 0])
    ELSE Dec(d.neg, d.ip \div Pow10(-k),
             NatToDigits(d.ip % Pow10(-k), -k) \o d.fd)

\* d >= n and d <= n for a natural number n
DecGe(d, n) == IF d.neg THEN FALSE ELSE d.ip >= n

DecLe(d, n) == IF d.neg THEN TRUE ELSE d.ip < n \/ (d.ip = n /\ d.fd = <<>>)

\* 1 - 0.fd for a nonempty fd without trailing zeros
FractionComplement(fd) ==
    [i \in 1..Len(fd) |-> IF i = Len(fd) THEN 10 - fd[i] ELSE 9 - fd[i]]

\* d + n for an integer n large enough for the sum to be positive
DecAddInt(d, n) ==
    IF ~d.neg THEN [neg |-> FALSE, ip |-> d.ip + n, fd |-> d.fd]
    ELSE IF d.fd = <<>> THEN [neg |-> FALSE, ip |-> n - d.ip, fd |-> <<>>]
    ELSE [neg |-> FALSE, ip |-> n - d.ip - 1, fd |-> FractionComplement(d.fd)]

\* d + 0.5 for d >= 0
DecAddHalf(d) ==
    IF d.fd = <<>> THEN [neg |-> FALSE, ip |-> d.ip, fd |-> <<5>>]
    ELSE Dec(FALSE, IF d.fd[1] < 5 THEN d.ip ELSE d.ip + 1,
             <<(d.fd[1] + 5) % 10>> \o Tail(d.fd))

----------------------------------------------------------------------------
(* int(str, base) and float(str) *)

ValueError == [ok |-> FALSE]

DigitValues(ds) == [i \in 1..Len(ds) |-> DigitValue(ds[i])]

\* The magnitude of an int literal without sign: digits of the base, where
\* single underscores may separate digits.
IntMagnitude(body, base) ==
    IF /\ body # <<>>
       /\ body[1] # "_" /\ body[Len(body)] # "_"
       /\ \A i \in 1..Len(body) :
             \/ DigitValue(body[i]) < base
             \/ body[i] = "_" /\ body[i + 1] # "_"
    THEN [ok |-> TRUE,
          val |-> DigitsToNat(DigitValues(SelectSeq(body, LAMBDA c : c # "_")),
                              base, 0)]
    ELSE ValueError

Negated(parsed) == IF parsed.ok THEN [ok |-> TRUE, val |-> -parsed.val] ELSE parsed

\* An int literal with its optional sign.
IntLiteral(t, base) ==
    IF t # <<>> /\ t[1] = "-" THEN Negated(IntMagnitude(Tail(t), base))
    ELSE IF t # <<>> /\ t[1] = "+" THEN IntMagnitude(Tail(t), base)
    ELSE IntMagnitude(t, base)

\* int(s, base) for base 10 and 36: surrounding whitespace is stripped, one
\* leading sign is accepted and single underscores may separate digits.
PyInt(s, base) == IntLiteral(StrStrip(s), base)

\* The magnitude of a plain decimal literal, given the position of its point
\* (one past the end if it has none).
FloatMagnitude(neg, body, dot) ==
    IF /\ \A i \in 1..Len(body) : body[i] \in Digits \/ i = dot
       /\ Len(body) > (IF dot <= Len(body) THEN 1 ELSE 0)
    THEN [ok |-> TRUE,
          val |-> Dec(neg,
                      DigitsToNat(DigitValues(SubSeq(body, 1, dot - 1)), 10, 0),
                      DigitValues(SubSeq(body, dot + 1, Len(body))))]
    ELSE ValueError

FloatUnsigned(neg, body) ==
    FloatMagnitude(neg, body,
                   SetMin({i \in 1..Len(body) : body[i] = "."} \cup {Len(body) + 1}))

\* A float literal with its optional sign.
FloatLiteral(t) ==
    IF t # <<>> /\ t[1] \in SignChars THEN FloatUnsigned(t[1] = "-", Tail(t))
    ELSE FloatUnsigned(FALSE, t)

\* float(s) for plain decimal literals: surrounding whitespace is stripped,
\* one leading sign is accepted, then digits with at most one point and at
\* least one digit.  Exponents, underscores, "inf" and "nan" are not drawn.
PyFloat(s) == FloatLiteral(StrStrip(s))

----------------------------------------------------------------------------
(* Field decoders *)

scientific_notation_pattern ==
    << Item(SignChars, 0, 1, "1"), Item(Digits, 5, 5, "2"),
       Item(SignChars, 1, 1, "3"), Item(Digits, 1, 1, "3") >>

Signed(negative, d) == IF negative THEN DecNegate(d) ELSE d

\* A faulty ScientificValue that takes the five digits as an integer.
ScientificUnscaled(negative, digits, exponent) ==
    Signed(negative, DecShift(DecFromInt(digits), exponent))

\* sign * mantissa * (10**exponent), with mantissa = int(digits) / 1e5
ScientificValue(negative, digits, exponent) ==
    Signed(negative, DecShift(DecShift(DecFromInt(digits), -5), exponent))

ScientificFromMatch(match) ==
    IF ~match.ok THEN FloatVal(DecZero)
    ELSE FloatVal(ScientificValue(Group(match, "1") = <<"-">>,
                                  PyInt(Group(match, "2"), 10).val,
                                  PyInt(Group(match, "3"), 10).val))

\* The float that parse_scientific_notation returns for the str value.
parse_scientific_notation(value) ==
    ScientificFromMatch(RegexMatch(scientific_notation_pattern, value))

\* The decoded value, or None after a ValueError.
ValueOrNone(parsed, type) ==
    IF parsed.ok THEN Return([t |-> type, v |-> parsed.val]) ELSE Return(None)

parse_id_field(value) ==
    IF ~IsStr(value) THEN Return(None)
    ELSE IF value.v # <<>> /\ IsAlpha(value.v[1])
         THEN ValueOrNone(PyInt(value.v, 36), "int")
         ELSE ValueOrNone(PyInt(value.v, 10), "int")

Classifications == {<<"U">>, <<"C">>, <<"S">>}

\* A faulty ClassificationOf that returns None for a letter outside U, C, S.
ClassificationOrNone(v) ==
    IF v \in {<<"U">>, <<"C">>, <<"S">>} THEN Return(StrVal(v)) ELSE Return(None)

\* A faulty ClassificationOf that raises for every value outside U, C, S,
\* whatever its length.
ClassificationOrRaise(v) ==
    IF v \in Classifications THEN Return(StrVal(v)) ELSE Raise("ValueError")

ClassificationOf(v) ==
    IF Len(v) # 1 THEN Return(None)
    ELSE IF v \notin Classifications THEN Raise("ValueError")
    ELSE Return(StrVal(v))

parse_classification_field(value) ==
    IF ~IsStr(value) THEN Return(None)
    ELSE ClassificationOf(StrUpper(StrStrip(value.v)))

parse_designator_field(value) ==
    IF ~IsStr(value) THEN Return(None) ELSE Return(StrVal(StrStrip(value.v)))

CutoffYear == 57

\* A faulty EpochYear whose last year of the 2000s is the cutoff itself.
EpochYearInclusive(yy) == IF yy <= CutoffYear THEN yy + 2000 ELSE yy + 1900

\* The epoch year of a two-digit year.
EpochYear(yy) == IF yy < CutoffYear THEN yy + 2000 ELSE yy + 1900

UnixEpochJulianDay == 2440587

LeapDaysBefore(year) ==
    ((year - 1) \div 4) - ((year - 1) \div 100) + ((year - 1) \div 400)

\* datetime(year, 1, 1, tzinfo=utc).timestamp() / 86400
DaysSinceUnixEpoch(year) ==
    365 * (year - 1970) + LeapDaysBefore(year) - LeapDaysBefore(1970)

\* The Julian date of the instant (day - 1) days after 1 January of the year:
\* its days since the Unix epoch plus 2440587.5.
JulianDate(year, day) ==
    DecAddHalf(DecAddInt(day, DaysSinceUnixEpoch(year) - 1 + UnixEpochJulianDay))

EpochTuple(year, day) ==
    Return(TupleVal(<<IntVal(year), FloatVal(day), FloatVal(JulianDate(year, day))>>))

EpochFrom(yy, day) ==
    IF ~yy.ok \/ ~day.ok THEN Return(None)
    ELSE EpochTuple(EpochYear(yy.val), day.val)

parse_epoch_field(value) ==
    IF ~IsStr(value) THEN Return(None)
    ELSE EpochFrom(PyInt(Slice(value.v, 1, 2), 10),
                   PyFloat(Slice(value.v, 3, Len(value.v))))

parse_bstar_drag_term_field(value) ==
    IF ~IsStr(value) THEN Return(None)
    ELSE Return(parse_scientific_notation(value.v))

\* The decoders that are int(value) or float(value) guarded by ValueError.
IntField(value) ==
    IF ~IsStr(value) THEN Return(None)
    ELSE ValueOrNone(PyInt(value.v, 10), "int")

FloatField(value) ==
    IF ~IsStr(value) THEN Return(None)
    ELSE ValueOrNone(PyFloat(value.v), "float")

parse_ephemeris_type_field(value) == IntField(value)

parse_set_number_field(value) == IntField(value)

parse_raan_field(value) == FloatField(value)

parse_inclination_field(value) == FloatField(value)

\* The eccentricity digits read as a number of their own.
parse_eccentricity_whole(value) == FloatField(value)

parse_eccentricity_field(value) ==
    IF ~IsStr(value) THEN Return(None)
    ELSE ValueOrNone(PyFloat(<<"0", ".">> \o StrStrip(value.v)), "float")

parse_argument_of_perigee_field(value) == FloatField(value)

parse_mean_anomaly_field(value) == FloatField(value)

parse_mean_motion_field(value) == FloatField(value)

parse_first_derivative_of_mean_motion_field(value) == FloatField(value)

parse_second_derivative_of_mean_motion_field(value) ==
    IF ~IsStr(value) THEN Return(None)
    ELSE Return(parse_scientific_notation(value.v))

parse_number_of_revolutions_field(value) == IntField(value)

----------------------------------------------------------------------------
(* Record assembler *)

\* The field constraints and the validator of the pydantic model ID.
ID(fields) ==
    /\ fields.id.v >= 0
    /\ fields.year.v >= 1900 /\ fields.year.v <= 2100
    /\ DecGe(fields.day.v, 1) /\ DecLe(fields.day.v, 367)
    /\ fields.set.v >= 0
    /\ fields.classification.v \in Classifications

\* Satellite(**fields): the record, or a ValidationError when a constraint of
\* ID fails; the orbital elements carry no constraint of their own.
Satellite(fields) ==
    IF ID(fields) THEN Return([t |-> "Satellite", v |-> fields])
    ELSE Raise("ValidationError")

\* A faulty SatelliteOrNone: no try around the construction of the record.
SatelliteUncaught(constructed) == constructed

\* try: Satellite(...) except Exception: return None
SatelliteOrNone(constructed) ==
    IF constructed.kind = "raise" THEN Return(None) ELSE constructed

\* The field decoders in the order parse_tle calls them.
DecoderOrder ==
    << "id", "classification", "designator", "epoch",
       "first_derivative_of_mean_motion", "second_derivative_of_mean_motion",
       "drag", "ephemeris", "set", "inclination", "raan", "eccentricity",
       "argument_of_perigee", "mean_anomaly", "mean_motion",
       "number_of_revolutions" >>

\* The decoders parse_tle stops at: those that raise or return None.
Stops(d) ==
    {k \in 1..Len(DecoderOrder) :
        d[DecoderOrder[k]].kind = "raise" \/ d[DecoderOrder[k]].val = None}

\* parse_tle from the decoded fields d on: the first decoder to raise or to
\* return None ends the call; otherwise the record is assembled.
parse_tle_fields(name, d) ==
    IF Stops(d) # {}
    THEN (IF d[DecoderOrder[SetMin(Stops(d))]].kind = "raise"
          THEN d[DecoderOrder[SetMin(Stops(d))]]
          ELSE Return(None))
    ELSE SatelliteOrNone(Satellite(
            [id |-> d.id.val, name |-> StrVal(name),
             classification |-> d.classification.val,
             designator |-> d.designator.val,
             year |-> d.epoch.val.v[1], day |-> d.epoch.val.v[2],
             jd |-> d.epoch.val.v[3],
             ephemeris |-> d.ephemeris.val, set |-> d.set.val,
             drag |-> d.drag.val, raan |-> d.raan.val,
             inclination |-> d.inclination.val,
             eccentricity |-> d.eccentricity.val,
             argument_of_perigee |-> d.argument_of_perigee.val,
             mean_anomaly |-> d.mean_anomaly.val,
             mean_motion |-> d.mean_motion.val,
             first_derivative_of_mean_motion |->
                 d.first_derivative_of_mean_motion.val,
             second_derivative_of_mean_motion |->
                 d.second_derivative_of_mean_motion.val,
             number_of_revolutions |-> d.number_of_revolutions.val]))

\* parse_tle from the two matches on: the decoders applied to their groups.
parse_tle_matches(name, m1, m2) ==
    IF ~m1.ok \/ ~m2.ok THEN Return(None)
    ELSE parse_tle_fields(name,
        [id |-> parse_id_field(StrVal(Group(m1, "id"))),
         classification |->
             parse_classification_field(StrVal(Group(m1, "classification"))),
         designator |-> parse_designator_field(StrVal(Group(m1, "designator"))),
         epoch |-> parse_epoch_field(StrVal(Group(m1, "year") \o Group(m1, "day"))),
         first_derivative_of_mean_motion |->
             parse_first_derivative_of_mean_motion_field(
                 StrVal(Group(m1, "first_derivative_of_mean_motion"))),
         second_derivative_of_mean_motion |->
             parse_second_derivative_of_mean_motion_field(
                 StrVal(Group(m1, "second_derivative_of_mean_motion"))),
         drag |-> parse_bstar_drag_term_field(StrVal(Group(m1, "drag"))),
         ephemeris |-> parse_ephemeris_type_field(StrVal(Group(m1, "ephemeris"))),
         set |-> parse_set_number_field(StrVal(Group(m1, "set"))),
         inclination |-> parse_inclination_field(StrVal(Group(m2, "inclination"))),
         raan |-> parse_raan_field(StrVal(Group(m2, "raan"))),
         eccentricity |->
             parse_eccentricity_field(StrVal(Group(m2, "eccentricity"))),
         argument_of_perigee |->
             parse_argument_of_perigee_field(
                 StrVal(Group(m2, "argument_of_perigee"))),
         mean_anomaly |-> parse_mean_anomaly_field(StrVal(Group(m2, "mean_anomaly"))),
         mean_motion |-> parse_mean_motion_field(StrVal(Group(m2, "mean_motion"))),
         number_of_revolutions |->
             parse_number_of_revolutions_field(
                 StrVal(Group(m2, "number_of_revolutions")))])

\* parse_tle from the name and the two TLE lines on.
parse_tle_lines(name, line1, line2) ==
    parse_tle_matches(name, RegexMatch(line1_regex, line1),
                      RegexMatch(line2_regex, line2))

\* A faulty parse_tle_document: more than three lines are no TLE.
parse_tle_document_of_three(lines) ==
    IF Len(lines) = 2 THEN parse_tle_lines(<<>>, lines[1], lines[2])
    ELSE IF Len(lines) = 3 THEN parse_tle_lines(lines[1], lines[2], lines[3])
    ELSE Return(None)

\* parse_tle from the stripped non-blank lines on.
parse_tle_document(lines) ==
    IF Len(lines) = 2 THEN parse_tle_lines(<<>>, lines[1], lines[2])
    ELSE IF Len(lines) >= 3 THEN parse_tle_lines(lines[1], lines[2], lines[3])
    ELSE Return(None)

\* A faulty StrippedNonBlank that strips the lines and keeps the blank ones.
StrippedWithBlank(lines) == [i \in 1..Len(lines) |-> StrStrip(lines[i])]

\* [line.strip() for line in lines if line.strip()]
StrippedNonBlank(lines) ==
    SelectSeq([i \in 1..Len(lines) |-> StrStrip(lines[i])], LAMBDA l : l # <<>>)

parse_tle(tle) == parse_tle_document(StrippedNonBlank(StrSplitLines(tle)))

----------------------------------------------------------------------------
(* Inputs: the documents handed to parse_tle.  A case names the tokens and  *)
(* the layout of a document; TleText renders it.                           *)

MaxLines == 4

MaxBlank == 1

MaxPad == 1

MaxGap == 2

IdTokens ==
    { <<"2", "5", "5", "4", "4">>,
      <<"E", "5", "5", "4", "4">>,
      <<"2", "5", "5", "4", "A">>,
      <<"0", "0", "0", "0", "5">> }

ClassificationTokens == { <<"U">>, <<"C">>, <<"S">>, <<"X">> }

EpochTokens ==
    { <<"2", "0", "0", "6", "2", ".", "5", "9", "0", "9", "7", "2", "2", "2">>,
      <<"5", "6", "0", "0", "1", ".", "0", "0", "0", "0", "0", "0", "0", "0">>,
      <<"5", "7", "3", "6", "6", ".", "5", "0", "0", "0", "0", "0", "0", "0">>,
      <<"9", "9", "3", "6", "7", ".", "0", "0", "0", "0", "0", "0", "0", "0">>,
      <<"2", "0", "0", "0", "0", ".", "5", "0", "0", "0", "0", "0", "0", "0">>,
      <<"2", "0", "3", "6", "7", ".", "0", "0", "0", "0", "0", "0", "0", "1">> }

DragTokens ==
    { <<"1", "0", "2", "7", "0", "-", "3">>,
      <<"-", "1", "2", "3", "4", "5", "+", "1">> }

EccentricityTokens ==
    { <<"0", "0", "0", "4", "6", "0", "7">>,
      <<"0", "0", "0", "0", "0", "0", "0">>,
      <<"9", "9", "9", "9", "9", "9", "9">> }

Line1Shapes == {"ok", "short_day", "no_set", "extra", "lower"}

Line2Shapes == {"ok", "short_eccentricity", "no_revolutions"}

SatelliteName == <<"I", "S", "S", " ", "(", "Z", "A", "R", "Y", "A", ")">>

\* g whitespace characters, spaces and tabs in turn.
Gap(g) == [i \in 1..g |-> IF i % 2 = 1 THEN " " ELSE "\t"]

RECURSIVE Join(_, _)
Join(parts, sep) ==
    IF parts = <<>> THEN <<>>
    ELSE IF Len(parts) = 1 THEN parts[1]
    ELSE parts[1] \o sep \o Join(Tail(parts), sep)

Line1Fields(c) ==
    << <<"1">>,
       c.id1 \o (IF c.shape1 = "lower" THEN <<"u">> ELSE c.cls),
       <<"9", "8", "0", "6", "7", "A">>,
       IF c.shape1 = "short_day" THEN SubSeq(c.epoch, 1, Len(c.epoch) - 1)
       ELSE c.epoch,
       <<".", "0", "0", "0", "1", "6", "7", "1", "7">>,
       <<"0", "0", "0", "0", "0", "-", "0">>,
       c.drag,
       <<"0">> >>
    \o (IF c.shape1 = "no_set" THEN <<>> ELSE << <<"9", "0", "0", "6">> >>)
    \o (IF c.shape1 = "extra" THEN << <<"7">> >> ELSE <<>>)

Line2Fields(c) ==
    << <<"2">>,
       c.id2,
       <<"5", "1", ".", "6", "4", "4", "2">>,
       <<"1", "4", "7", ".", "1", "0", "6", "4">>,
       IF c.shape2 = "short_eccentricity"
       THEN SubSeq(c.ecc, 1, Len(c.ecc) - 1) ELSE c.ecc,
       <<"9", "5", ".", "6", "5", "0", "6">>,
       <<"3", "2", "9", ".", "8", "2", "8", "5">>,
       <<"1", "5", ".", "4", "9", "2", "4", "9", "0", "6", "2">> >>
    \o (IF c.shape2 = "no_revolutions" THEN <<>> ELSE << <<"2", "4", "2", "3">> >>)

Line1Text(c) == Join(Line1Fields(c), Gap(c.gap))

Line2Text(c) == Join(Line2Fields(c), Gap(c.gap))

\* The non-blank lines of the document: the name if there is one, line 1,
\* line 2, then line 2 again as often as needed; the first c.n of these.
CaseLines(c) ==
    LET all == (IF c.named THEN <<SatelliteName>> ELSE <<>>)
               \o <<Line1Text(c)>> \o [i \in 1..MaxLines + 1 |-> Line2Text(c)]
    IN SubSeq(all, 1, c.n)

\* The lines of the document, blank lines included: c.lead blank lines,
\* then the non-blank lines with c.inner blank lines between neighbours.
DocLines(c) ==
    LET body   == CaseLines(c)
        blank  == Gap(c.pad)
        stride == c.inner + 1
        total  == IF body = <<>> THEN 0 ELSE (Len(body) - 1) * stride + 1
    IN [i \in 1..c.lead |-> blank]
       \o [i \in 1..total |->
              IF (i - 1) % stride = 0
              THEN blank \o body[(i - 1) \div stride + 1] \o blank
              ELSE blank]

TleText(c) ==
    LET lines == DocLines(c)
    IN IF lines = <<>> THEN <<>> ELSE Join(lines, c.eol) \o c.eol

DefaultCase ==
    [n |-> 2, named |-> FALSE, lead |-> 0, inner |-> 0, pad |-> 0,
     eol |-> <<"\n">>, gap |-> 1,
     id1 |-> <<"2", "5", "5", "4", "4">>, cls |-> <<"U">>,
     epoch |-> <<"2", "0", "0", "6", "2", ".", "5", "9", "0", "9", "7", "2", "2", "2">>, drag |-> <<"1", "0", "2", "7", "0", "-", "3">>,
     shape1 |-> "ok",
     id2 |-> <<"2", "5", "5", "4", "4">>, ecc |-> <<"0", "0", "0", "4", "6", "0", "7">>, shape2 |-> "ok"]

\* Documents that vary in layout.
LayoutCases ==
    { [DefaultCase EXCEPT !.n = n, !.named = named, !.lead = lead,
                          !.inner = inner, !.pad = pad, !.eol = eol,
                          !.cls = cls] :
        n \in 0..MaxLines, named \in BOOLEAN, lead \in 0..MaxBlank,
        inner \in 0..MaxBlank, pad \in 0..MaxPad,
        eol \in {<<"\n">>, <<"\r", "\n">>}, cls \in {<<"U">>, <<"X">>} }

\* Documents that vary in the fields of line 1.
FieldCases ==
    { [DefaultCase EXCEPT !.n = IF named THEN 3 ELSE 2, !.named = named,
                          !.id1 = id, !.id2 = id, !.cls = cls,
                          !.epoch = epoch, !.drag = drag] :
        named \in BOOLEAN, id \in IdTokens, cls \in ClassificationTokens,
        epoch \in EpochTokens, drag \in DragTokens }

\* Documents that vary in the two satellite ids.
IdCases ==
    { [DefaultCase EXCEPT !.id1 = id1, !.id2 = id2, !.cls = cls, !.ecc = ecc] :
        id1 \in IdTokens, id2 \in IdTokens, cls \in {<<"U">>, <<"X">>},
        ecc \in EccentricityTokens }

\* Documents that vary in the shape of the two lines.
ShapeCases ==
    { [DefaultCase EXCEPT !.shape1 = shape1, !.shape2 = shape2, !.gap = gap,
                          !.cls = cls] :
        shape1 \in Line1Shapes, shape2 \in Line2Shapes, gap \in 1..MaxGap,
        cls \in {<<"U">>, <<"X">>} }

TleCases == LayoutCases \cup FieldCases \cup IdCases \cup ShapeCases

----------------------------------------------------------------------------
(* Inputs: the values handed to the field decoders. *)

\* All strings of length at most n over the characters cs.
RECURSIVE Strings(_, _)
Strings(cs, n) ==
    IF n = 0 THEN {<<>>}
    ELSE LET shorter == Strings(cs, n - 1)
         IN shorter \cup {Append(t, c) : t \in shorter, c \in cs}

NonStrings == {None, IntVal(5)}

\* parse_scientific_notation: a leading part, a mantissa, an exponent sign
\* and exponent digits, each of them present, absent or malformed.
ScientificCases ==
    [lead : {<<>>, <<"+">>, <<"-">>, <<"x">>},
     mantissa : { <<"0", "0", "0", "0", "0">>,
                 <<"1", "2", "3", "4", "5">>,
                 <<"1", "0", "2", "7", "0">>,
                 <<"9", "9", "9", "9", "9">>,
                 <<"1", "2", "3", "4">>,
                 <<"1", "2", "3", "4", "5", "6">>,
                 <<"1", "2", "a", "4", "5">> },
     esign : {<<>>, <<"+">>, <<"-">>},
     edigits : {<<>>, <<"0">>, <<"3">>, <<"9">>, <<"1", "2">>}]

ScientificText(c) == c.lead \o c.mantissa \o c.esign \o c.edigits

MaxIdLen == 3

IdChars == {"2", "A", "z", "-", "_", " "}

IdInputs ==
    {StrVal(t) : t \in Strings(IdChars, MaxIdLen) \cup IdTokens
                       \cup { <<"+", "2", "5", "5", "4">>,
                             <<"-", "2", "5", "5", "4">>,
                             <<" ", "2", "5", "5", "4">>,
                             <<"2", "_", "5", "5", "4">>,
                             <<"Z", "Z", "Z", "Z", "Z">>,
                             <<"z", "z", "z", "z", "z">> }}
    \cup NonStrings

MaxClassificationLen == 2

ClassificationChars == {"U", "C", "S", "u", "c", "s", "X", "x", "1", " "}

ClassificationInputs ==
    {StrVal(t) : t \in Strings(ClassificationChars, MaxClassificationLen)}
    \cup NonStrings

DayTokens ==
    { <<"0", "6", "2", ".", "5", "9", "0", "9", "7", "2", "2", "2">>,
      <<"0", "0", "1", ".", "0", "0", "0", "0", "0", "0", "0", "0">>,
      <<"3", "6", "6", ".", "5", "0", "0", "0", "0", "0", "0", "0">>,
      <<"-", "2", ".", "2", "5">>,
      <<"1", ".", "5", " ">>,
      <<"X">> }

\* parse_epoch_field: every two-digit year before a day token, and some
\* values without a two-digit year.
EpochInputs ==
    {StrVal(<<a, b>> \o d) : a \in Digits, b \in Digits, d \in DayTokens}
    \cup {StrVal(t) : t \in { <<>>,
                             <<"5">>,
                             <<"X", "5", "0", "0", "1", ".", "5">>,
                             <<"5", "X", "0", "0", "1", ".", "5">>,
                             <<"-", "5", "0", "0", "1", ".", "5">> }}
    \cup NonStrings

----------------------------------------------------------------------------
(* The record grammars: lines built from whitespace-separated tokens *)

GrammarPatterns ==
    [line1 |-> line1_regex, line2 |-> line2_regex, h1 |-> h1_regex,
     h2 |-> h2_regex, e10 |-> e10_regex, e20 |-> e20_regex]

\* The tokens of one sample line of each grammar.
GrammarSamples ==
    [line1 |-> << <<"1">>,
            <<"2", "5", "5", "4", "4", "U">>,
            <<"9", "8", "0", "6", "7", "A">>,
            <<"2", "0", "0", "6", "2", ".", "5", "9", "0", "9", "7", "2", "2", "2">>,
            <<".", "0", "0", "0", "1", "6", "7", "1", "7">>,
            <<"0", "0", "0", "0", "0", "-", "0">>,
            <<"1", "0", "2", "7", "0", "-", "3">>,
            <<"0">>,
            <<"9", "0", "0", "6">> >>,
     line2 |-> << <<"2">>,
            <<"2", "5", "5", "4", "4">>,
            <<"5", "1", ".", "6", "4", "4", "2">>,
            <<"1", "4", "7", ".", "1", "0", "6", "4">>,
            <<"0", "0", "0", "4", "6", "0", "7">>,
            <<"9", "5", ".", "6", "5", "0", "6">>,
            <<"3", "2", "9", ".", "8", "2", "8", "5">>,
            <<"1", "5", ".", "4", "9", "2", "4", "9", "0", "6", "2">>,
            <<"2", "4", "2", "3">> >>,
     h1 |-> << <<"H", "1">>,
            <<"C", "P", "F">>,
            <<"2">>,
            <<"O", "P", "A">>,
            <<"2", "0", "2", "5">>,
            <<"0", "6">>,
            <<"0", "4">>,
            <<"1", "8">>,
            <<"1", "5", "5">>,
            <<"1">>,
            <<"a", "p", "o", "l", "l", "o", "1", "5">> >>,
     h2 |-> << <<"H", "2">>,
            <<"1", "0", "3">>,
            <<"1", "0", "3">>,
            <<"0">>,
            <<"2", "0", "2", "5">>,
            <<"6">>,
            <<"5">>,
            <<"0">>,
            <<"0">>,
            <<"0">>,
            <<"2", "0", "2", "5">>,
            <<"6">>,
            <<"9">>,
            <<"2", "3">>,
            <<"4", "5">>,
            <<"0">>,
            <<"9", "0", "0">>,
            <<"0">>,
            <<"1">>,
            <<"0">>,
            <<"0">>,
            <<"0">>,
            <<"3">> >>,
     e10 |-> << <<"1", "0">>,
            <<"0">>,
            <<"6", "0", "8", "3", "5">>,
            <<"8", "6", "3", "8", "2", ".", "0", "0", "0", "0", "0", "0">>,
            <<"0">>,
            <<"-", "9", "1", "5", "1", "1", "8", "5", ".", "6", "2", "9">>,
            <<"2", "5", "5", "3", "4", "1", "8", "2", ".", "3", "6", "1">>,
            <<"1", "1", "8", "1", "9", "4", "1", "1", ".", "2", "9", "9">> >>,
     e20 |-> << <<"2", "0">>,
            <<"1">>,
            <<"2", "1", "9", "0", ".", "1", "2", "3", "4", "5", "6">>,
            <<"-", "1", "8", "5", "0", ".", "6", "5", "4", "3", "2", "1">>,
            <<"2", "1", "0", "0", ".", "9", "8", "7", "6", "5", "4">> >>]

\* Changes of one token of the sample: the token at position k is replaced
\* by another (dropped when that is empty; appended when k is one past the
\* end), and ok tells whether the changed line still has the shape of its
\* grammar.
Substitution(k, token, ok) == [k |-> k, token |-> token, ok |-> ok]

Substitutions ==
    [line1 |->
        { Substitution(1, <<"2">>, FALSE),
          Substitution(2, <<"E", "5", "5", "4", "4", "C">>, TRUE),
          Substitution(2, <<"2", "5", "5", "4", "U">>, FALSE),
          Substitution(2, <<"2", "5", "5", "4", "4", "5", "U">>, FALSE),
          Substitution(2, <<"2", "5", "5", "4", "4", "u">>, FALSE),
          Substitution(2, <<"2", "5", "5", "4", "4">>, FALSE),
          Substitution(3, <<"9", "8", "0", "6", "7", "A", "B", "C">>, TRUE),
          Substitution(3, <<"9", "8", "0", "6", "7", "A", "B", "C", "D">>, FALSE),
          Substitution(3, <<"9", "8", "0", "6", "7">>, FALSE),
          Substitution(3, <<"9", "8", "6", "7", "A">>, FALSE),
          Substitution(4, <<"2", "0", "0", "6", "2", ".", "5", "9", "0", "9", "7", "2", "2">>, FALSE),
          Substitution(4, <<"2", "0", "0", "6", "2", ".", "5", "9", "0", "9", "7", "2", "2", "2", "2">>, FALSE),
          Substitution(4, <<"2", "0", "6", "2", ".", "5", "9", "0", "9", "7", "2", "2", "2">>, FALSE),
          Substitution(4, <<"2", "0", "0", "6", "2", "5", "9", "0", "9", "7", "2", "2", "2">>, FALSE),
          Substitution(5, <<"-", ".", "0", "0", "0", "1", "6", "7", "1", "7">>, TRUE),
          Substitution(5, <<"+", ".", "0", "0", "0", "1", "6", "7", "1", "7">>, TRUE),
          Substitution(5, <<"0", ".", "0", "0", "0", "1", "6", "7", "1", "7">>, FALSE),
          Substitution(5, <<".", "0", "0", "0", "1", "6", "7", "1">>, FALSE),
          Substitution(5, <<".", "0", "0", "0", "1", "6", "7", "1", "7", "1">>, FALSE),
          Substitution(6, <<"-", "1", "2", "3", "4", "5", "+", "1">>, TRUE),
          Substitution(6, <<"1", "2", "3", "4", "-", "3">>, FALSE),
          Substitution(6, <<"1", "2", "3", "4", "5", "6", "-", "3">>, FALSE),
          Substitution(6, <<"1", "2", "3", "4", "5", "-", "1", "2">>, FALSE),
          Substitution(6, <<"1", "2", "3", "4", "5", "3">>, FALSE),
          Substitution(7, <<"+", "1", "2", "3", "4", "5", "-", "3">>, TRUE),
          Substitution(7, <<"1", "0", "2", "7", "-", "3">>, FALSE),
          Substitution(7, <<"1", "0", "2", "7", "0", "-">>, FALSE),
          Substitution(8, <<"1", "2">>, FALSE),
          Substitution(9, <<"9">>, TRUE),
          Substitution(9, <<"9", "0", "0", "6", "1", "2", "3", "4">>, TRUE),
          Substitution(9, <<"9", "X">>, FALSE),
          Substitution(9, <<>>, FALSE),
          Substitution(1, <<>>, FALSE),
          Substitution(5, <<>>, FALSE),
          Substitution(10, <<"7">>, FALSE) },
     line2 |->
        { Substitution(1, <<"1">>, FALSE),
          Substitution(2, <<"E", "5", "5", "4", "4">>, TRUE),
          Substitution(2, <<"2", "5", "5", "4">>, FALSE),
          Substitution(2, <<"2", "5", "5", "4", "4", "5">>, FALSE),
          Substitution(3, <<"0", "0", "5", "1", ".", "6", "4", "4", "2", "0", "0", "0", "0">>, TRUE),
          Substitution(3, <<"5", "1">>, FALSE),
          Substitution(3, <<"5", "1", ".">>, FALSE),
          Substitution(3, <<".", "6", "4", "4", "2">>, FALSE),
          Substitution(5, <<"0", "0", "0", "0", "0", "0", "0">>, TRUE),
          Substitution(5, <<"0", "0", "0", "4", "6", "0">>, FALSE),
          Substitution(5, <<"0", "0", "0", "4", "6", "0", "7", "1">>, FALSE),
          Substitution(5, <<"0", ".", "0", "0", "4", "6", "0", "7">>, FALSE),
          Substitution(9, <<"2", "4", "2", "3", "5">>, TRUE),
          Substitution(9, <<"-", "5">>, FALSE),
          Substitution(9, <<>>, FALSE),
          Substitution(5, <<>>, FALSE),
          Substitution(10, <<"7">>, FALSE) },
     h1 |->
        { Substitution(1, <<"H", "2">>, FALSE),
          Substitution(1, <<"h", "1">>, FALSE),
          Substitution(2, <<"C", "P", "G">>, FALSE),
          Substitution(2, <<"c", "p", "f">>, FALSE),
          Substitution(3, <<"2", "2">>, FALSE),
          Substitution(3, <<"x">>, FALSE),
          Substitution(4, <<"o", "1", "A">>, TRUE),
          Substitution(4, <<"O", "P">>, FALSE),
          Substitution(4, <<"O", "P", "A", "X">>, FALSE),
          Substitution(4, <<"O", "_", "A">>, FALSE),
          Substitution(5, <<"2", "0", "X", "5">>, FALSE),
          Substitution(5, <<"2", "0", "2">>, FALSE),
          Substitution(5, <<"2", "0", "2", "5", "5">>, FALSE),
          Substitution(6, <<"6">>, TRUE),
          Substitution(6, <<"1", "2", "3">>, FALSE),
          Substitution(7, <<"4">>, TRUE),
          Substitution(7, <<"1", "2", "3">>, FALSE),
          Substitution(8, <<"8">>, TRUE),
          Substitution(8, <<"1", "2", "3">>, FALSE),
          Substitution(9, <<"1">>, TRUE),
          Substitution(9, <<"1", "5", "5", "5">>, FALSE),
          Substitution(10, <<"0", "1">>, TRUE),
          Substitution(10, <<"1", "2", "3">>, FALSE),
          Substitution(11, <<"a">>, TRUE),
          Substitution(11, <<"l", "a", "g", "e", "o", "s", "1", "2", "3", "4">>, TRUE),
          Substitution(11, <<"l", "a", "g", "e", "o", "s", "1", "2", "3", "4", "5">>, FALSE),
          Substitution(12, <<"N", "O", "N", "E">>, TRUE),
          Substitution(12, <<"O", "P", "A", "_", "E", "L", "P", "9", "6">>, TRUE),
          Substitution(12, <<"O", "P", "A", "_", "E", "L", "P", "9", "6", "1">>, TRUE),
          Substitution(12, <<"O", "P", "A", "_", "E", "L", "P", "9", "6", "1", "2">>, FALSE),
          Substitution(11, <<>>, FALSE),
          Substitution(10, <<>>, FALSE),
          Substitution(5, <<>>, FALSE) },
     h2 |->
        { Substitution(1, <<"H", "1">>, FALSE),
          Substitution(1, <<"H">>, FALSE),
          Substitution(2, <<"1", "2", "3", "4", "5", "6", "7", "8">>, TRUE),
          Substitution(2, <<"1", "2", "3", "4", "5", "6", "7", "8", "9">>, FALSE),
          Substitution(2, <<"7", "6", "0", "3", "9", "0", "1", "A">>, FALSE),
          Substitution(3, <<"1", "1", "5", "5">>, TRUE),
          Substitution(3, <<"1", "1", "5", "5", "5">>, FALSE),
          Substitution(4, <<"0", "0", "0", "0", "0", "5", "1", "0">>, TRUE),
          Substitution(4, <<"1", "2", "3", "4", "5", "6", "7", "8", "9">>, FALSE),
          Substitution(5, <<"2", "0", "2">>, FALSE),
          Substitution(5, <<"2", "0", "2", "5", "5">>, FALSE),
          Substitution(5, <<"2", "O", "2", "5">>, FALSE),
          Substitution(6, <<"0", "6">>, TRUE),
          Substitution(6, <<"1", "2", "3">>, FALSE),
          Substitution(10, <<"1", "2", "3">>, FALSE),
          Substitution(11, <<"2", "5">>, FALSE),
          Substitution(16, <<"0", "0">>, TRUE),
          Substitution(16, <<"-", "0">>, FALSE),
          Substitution(17, <<"9", "9", "9", "9", "9">>, TRUE),
          Substitution(17, <<"1", "2", "3", "4", "5", "6">>, FALSE),
          Substitution(18, <<"1", "2">>, FALSE),
          Substitution(19, <<"1", "2">>, FALSE),
          Substitution(20, <<"0", "2">>, TRUE),
          Substitution(20, <<"1", "2", "3">>, FALSE),
          Substitution(21, <<"1", "2">>, FALSE),
          Substitution(22, <<"1", "2">>, FALSE),
          Substitution(23, <<"1", "0">>, TRUE),
          Substitution(23, <<"1", "2", "3">>, FALSE),
          Substitution(23, <<"x">>, FALSE),
          Substitution(23, <<>>, FALSE),
          Substitution(12, <<>>, FALSE),
          Substitution(24, <<"7">>, FALSE) },
     e10 |->
        { Substitution(1, <<"2", "0">>, FALSE),
          Substitution(1, <<"1">>, FALSE),
          Substitution(2, <<"1">>, TRUE),
          Substitution(2, <<"2">>, TRUE),
          Substitution(2, <<"3">>, FALSE),
          Substitution(2, <<"0", "0">>, FALSE),
          Substitution(3, <<"6">>, TRUE),
          Substitution(3, <<"6", "0", "8", "3", "5", "1">>, FALSE),
          Substitution(4, <<"8", "5", "5", "0", "0", ".", "0">>, TRUE),
          Substitution(4, <<"8", "5", "5", "0", "0", ".", "1", "2", "3", "4", "5", "6", "7">>, FALSE),
          Substitution(4, <<"8", "5", "5", "0", "0", ".">>, FALSE),
          Substitution(5, <<"1", "2">>, TRUE),
          Substitution(5, <<"1", "2", "3">>, FALSE),
          Substitution(6, <<"+", "9", "1", "5", "1", "1", "8", "5", ".", "6", "2", "9">>, TRUE),
          Substitution(6, <<"0", ".", "0", "0", "0">>, TRUE),
          Substitution(6, <<"9", "1", "5", "1", "1", "8", "5", ".", "6", "2">>, FALSE),
          Substitution(6, <<"9", "1", "5", "1", "1", "8", "5", ".", "6", "2", "9", "1">>, FALSE),
          Substitution(6, <<"9", "1", "5", "1", "1", "8", "5">>, FALSE),
          Substitution(6, <<".", "6", "2", "9">>, FALSE),
          Substitution(7, <<"2", "5", "5", "3", "4", "1", "8", "2", ".", "3", "6", "1", "0">>, FALSE),
          Substitution(8, <<"-", "1", "1", "8", "1", "9", "4", "1", "1", ".", "2", "9", "9">>, TRUE),
          Substitution(8, <<"1", "1", "8", "1", "9", "4", "1", "1", ".", "2", "9">>, FALSE),
          Substitution(8, <<>>, FALSE),
          Substitution(6, <<>>, FALSE),
          Substitution(9, <<"7">>, FALSE) },
     e20 |->
        { Substitution(1, <<"1", "0">>, FALSE),
          Substitution(1, <<"2">>, FALSE),
          Substitution(2, <<"0">>, TRUE),
          Substitution(2, <<"2">>, TRUE),
          Substitution(2, <<"3">>, FALSE),
          Substitution(3, <<"+", "2", "1", "9", "0", ".", "1", "2", "3", "4", "5", "6">>, TRUE),
          Substitution(3, <<"-", "0", ".", "0", "0", "0", "0", "0", "0">>, TRUE),
          Substitution(3, <<"2", "1", "9", "0", ".", "1", "2", "3", "4", "5">>, FALSE),
          Substitution(3, <<"2", "1", "9", "0", ".", "1", "2", "3", "4", "5", "6", "7">>, FALSE),
          Substitution(3, <<"a", "b", "c">>, FALSE),
          Substitution(3, <<"2", "1", "9", "0">>, FALSE),
          Substitution(4, <<"1", "8", "5", "0", ".", "6", "5", "4", "3", "2", "1">>, TRUE),
          Substitution(5, <<"2", "1", "x", "0", ".", "9", "8", "7", "6", "5", "4">>, FALSE),
          Substitution(5, <<>>, FALSE),
          Substitution(3, <<>>, FALSE),
          Substitution(6, <<"7">>, FALSE) }]

\* The tokens after a change.
Substituted(tokens, sub) ==
    SelectSeq(IF sub.k > Len(tokens) THEN Append(tokens, sub.token)
              ELSE [tokens EXCEPT ![sub.k] = sub.token],
              LAMBDA t : t # <<>>)

\* The text of a line: c.lead whitespace characters, the tokens with gaps of
\* c.gap characters (gap number c.wide has c.width), c.trail characters, and
\* the line terminator c.eol, if any.
LineText(c) ==
    Gap(c.lead)
    \o Join([j \in 1..Len(c.tokens) |->
                (IF j = 1 THEN <<>>
                 ELSE Gap(IF j - 1 = c.wide THEN c.width ELSE c.gap)) \o c.tokens[j]],
            <<>>)
    \o Gap(c.trail) \o c.eol

\* The lines of a grammar with one token of the sample changed, alone and
\* followed by a newline.
ChangedLines(g) ==
    { [grammar |-> g, tokens |-> Substituted(GrammarSamples[g], sub), ok |-> sub.ok,
       gap |-> 1, wide |-> 0, width |-> 1, lead |-> 0, trail |-> 0, eol |-> eol] :
        sub \in Substitutions[g], eol \in {<<>>, <<"\n">>} }

\* The lines of a grammar with the tokens of a well-formed line, in every
\* spacing: leading or trailing whitespace breaks the shape.
SpacedLines(g, tokens) ==
    { [grammar |-> g, tokens |-> tokens, ok |-> lead = 0 /\ trail = 0,
       gap |-> gap, wide |-> wide, width |-> width, lead |-> lead, trail |-> trail,
       eol |-> <<>>] :
        gap \in 1..MaxGap, wide \in 0..Len(tokens) - 1, width \in 1..MaxGap + 1,
        lead \in 0..1, trail \in 0..1 }

GrammarCases ==
    UNION { ChangedLines(g)
            \cup SpacedLines(g, GrammarSamples[g])
            \cup UNION { SpacedLines(g, Substituted(GrammarSamples[g], sub)) :
                           sub \in {u \in Substitutions[g] :
                                       u.ok /\ u.k > Len(GrammarSamples[g])} } :
            g \in DOMAIN GrammarSamples }

\* The groups of a well-formed line of each grammar: the name of the group,
\* the token it lies in, and its first and last character in that token
\* (last = 0: up to the end of the token).
GroupFields ==
    [line1 |->
        << [name |-> "id", tok |-> 2, first |-> 1, last |-> 5],
           [name |-> "classification", tok |-> 2, first |-> 6, last |-> 6],
           [name |-> "designator", tok |-> 3, first |-> 1, last |-> 0],
           [name |-> "year", tok |-> 4, first |-> 1, last |-> 2],
           [name |-> "day", tok |-> 4, first |-> 3, last |-> 0],
           [name |-> "first_derivative_of_mean_motion", tok |-> 5, first |-> 1, last |-> 0],
           [name |-> "second_derivative_of_mean_motion", tok |-> 6, first |-> 1, last |-> 0],
           [name |-> "drag", tok |-> 7, first |-> 1, last |-> 0],
           [name |-> "ephemeris", tok |-> 8, first |-> 1, last |-> 0],
           [name |-> "set", tok |-> 9, first |-> 1, last |-> 0] >>,
     line2 |->
        << [name |-> "id", tok |-> 2, first |-> 1, last |-> 0],
           [name |-> "inclination", tok |-> 3, first |-> 1, last |-> 0],
           [name |-> "raan", tok |-> 4, first |-> 1, last |-> 0],
           [name |-> "eccentricity", tok |-> 5, first |-> 1, last |-> 0],
           [name |-> "argument_of_perigee", tok |-> 6, first |-> 1, last |-> 0],
           [name |-> "mean_anomaly", tok |-> 7, first |-> 1, last |-> 0],
           [name |-> "mean_motion", tok |-> 8, first |-> 1, last |-> 0],
           [name |-> "number_of_revolutions", tok |-> 9, first |-> 1, last |-> 0] >>,
     h1 |->
        << [name |-> "version", tok |-> 3, first |-> 1, last |-> 0],
           [name |-> "ephemeris_source", tok |-> 4, first |-> 1, last |-> 0],
           [name |-> "year", tok |-> 5, first |-> 1, last |-> 0],
           [name |-> "month", tok |-> 6, first |-> 1, last |-> 0],
           [name |-> "day", tok |-> 7, first |-> 1, last |-> 0],
           [name |-> "hour", tok |-> 8, first |-> 1, last |-> 0],
           [name |-> "ephemeris_sequence_number", tok |-> 9, first |-> 1, last |-> 0],
           [name |-> "sub_daily_sequence_number", tok |-> 10, first |-> 1, last |-> 0],
           [name |-> "target_name", tok |-> 11, first |-> 1, last |-> 0],
           [name |-> "notes", tok |-> 12, first |-> 1, last |-> 0] >>,
     h2 |->
        << [name |-> "cospar_id", tok |-> 2, first |-> 1, last |-> 0],
           [name |-> "sic", tok |-> 3, first |-> 1, last |-> 0],
           [name |-> "norad_id", tok |-> 4, first |-> 1, last |-> 0],
           [name |-> "start_year", tok |-> 5, first |-> 1, last |-> 0],
           [name |-> "start_month", tok |-> 6, first |-> 1, last |-> 0],
           [name |-> "start_day", tok |-> 7, first |-> 1, last |-> 0],
           [name |-> "start_hour", tok |-> 8, first |-> 1, last |-> 0],
           [name |-> "start_minute", tok |-> 9, first |-> 1, last |-> 0],
           [name |-> "start_second", tok |-> 10, first |-> 1, last |-> 0],
           [name |-> "end_year", tok |-> 11, first |-> 1, last |-> 0],
           [name |-> "end_month", tok |-> 12, first |-> 1, last |-> 0],
           [name |-> "end_day", tok |-> 13, first |-> 1, last |-> 0],
           [name |-> "end_hour", tok |-> 14, first |-> 1, last |-> 0],
           [name |-> "end_minute", tok |-> 15, first |-> 1, last |-> 0],
           [name |-> "end_second", tok |-> 16, first |-> 1, last |-> 0],
           [name |-> "interval", tok |-> 17, first |-> 1, last |-> 0],
           [name |-> "tiv_compat", tok |-> 18, first |-> 1, last |-> 0],
           [name |-> "target_class", tok |-> 19, first |-> 1, last |-> 0],
           [name |-> "reference_frame", tok |-> 20, first |-> 1, last |-> 0],
           [name |-> "rot_angle_type", tok |-> 21, first |-> 1, last |-> 0],
           [name |-> "com_correction", tok |-> 22, first |-> 1, last |-> 0],
           [name |-> "location_dynamics", tok |-> 23, first |-> 1, last |-> 0] >>,
     e10 |->
        << [name |-> "direction", tok |-> 2, first |-> 1, last |-> 0],
           [name |-> "mjd", tok |-> 3, first |-> 1, last |-> 0],
           [name |-> "seconds", tok |-> 4, first |-> 1, last |-> 0],
           [name |-> "leap_second", tok |-> 5, first |-> 1, last |-> 0],
           [name |-> "x", tok |-> 6, first |-> 1, last |-> 0],
           [name |-> "y", tok |-> 7, first |-> 1, last |-> 0],
           [name |-> "z", tok |-> 8, first |-> 1, last |-> 0] >>,
     e20 |->
        << [name |-> "direction", tok |-> 2, first |-> 1, last |-> 0],
           [name |-> "vx", tok |-> 3, first |-> 1, last |-> 0],
           [name |-> "vy", tok |-> 4, first |-> 1, last |-> 0],
           [name |-> "vz", tok |-> 5, first |-> 1, last |-> 0] >>]

----------------------------------------------------------------------------
(* Exact fractions: the float arithmetic of the interpolators, without its *)
(* rounding                                                                *)

Abs(n) == IF n < 0 THEN -n ELSE n

RECURSIVE Gcd(_, _)
Gcd(a, b) == IF b = 0 THEN a ELSE Gcd(b, a % b)

Reduced(n, d, g) == [num |-> (IF d < 0 THEN -n ELSE n) \div g, den |-> Abs(d) \div g]

\* n / d in lowest terms, for d other than 0
Frac(n, d) == Reduced(n, d, Gcd(Abs(n), Abs(d)))

FracOf(n) == [num |-> n, den |-> 1]

\* math.nan
NaN == [nan |-> TRUE]

\* An operation on a not-a-number gives a not-a-number.
FracAdd(a, b) ==
    IF a = NaN \/ b = NaN THEN NaN
    ELSE Frac(a.num * b.den + b.num * a.den, a.den * b.den)

FracSub(a, b) ==
    IF a = NaN \/ b = NaN THEN NaN
    ELSE Frac(a.num * b.den - b.num * a.den, a.den * b.den)

FracMul(a, b) ==
    IF a = NaN \/ b = NaN THEN NaN
    ELSE Frac(a.num * b.num, a.den * b.den)

\* a / b, for b other than 0
FracDiv(a, b) ==
    IF a = NaN \/ b = NaN THEN NaN
    ELSE Frac(a.num * b.den, a.den * b.num)

\* a < b, false of a not-a-number
FracLess(a, b) == a # NaN /\ b # NaN /\ a.num * b.den < b.num * a.den



----------------------------------------------------------------------------
(* The interpolators *)

\* A position sample: three coordinates and a time.
Position(x, y, z, at) == [t |-> "Position", v |-> [x |-> x, y |-> y, z |-> z, at |-> at]]

ListVal(xs) == [t |-> "list", v |-> xs]

\* The place of element k of ps in sorted(ps, key=lambda p: p.at): the sort
\* is stable.
Rank(ps, k) ==
    1 + Cardinality({j \in 1..Len(ps) :
                       \/ FracLess(ps[j].v.at, ps[k].v.at)
                       \/ ps[j].v.at = ps[k].v.at /\ j < k})

\* A faulty sort: the list in the order given.
InGivenOrder(ps) == ps

\* sorted(positions, key=lambda p: p.at), a new list; it is stable
SortedByTime(ps) == [r \in 1..Len(ps) |-> ps[CHOOSE k \in 1..Len(ps) : Rank(ps, k) = r]]

\* A faulty Base3DPositionInterpolator: only an empty list is too short.
Base3DPositionInterpolatorNonEmpty(positions) ==
    IF Len(positions) < 1 THEN Raise("ValueError")
    ELSE Return(SortedByTime(positions))

\* Base3DPositionInterpolator.__init__: self.positions, or the error raised
Base3DPositionInterpolator(positions) ==
    IF Len(positions) < 2 THEN Raise("ValueError")
    ELSE Return(SortedByTime(positions))

\* The product of at - position_j.at over the positions j.. other than i
RECURSIVE BasisProduct(_, _, _)
BasisProduct(ps, i, j) ==
    IF j > Len(ps) THEN FracOf(1)
    ELSE IF j = i THEN BasisProduct(ps, i, j + 1)
    ELSE FracMul(FracSub(ps[i].v.at, ps[j].v.at), BasisProduct(ps, i, j + 1))

\* Faulty weights: every weight left at its initial 1.0
UnitWeights(ps) == Return([i \in 1..Len(ps) |-> FracOf(1)])

\* _prepare_basis_weights: 1.0 / product raises when two times are equal
prepare_basis_weights(ps) ==
    IF \E i \in 1..Len(ps) : BasisProduct(ps, i, 1).num = 0
    THEN Raise("ZeroDivisionError")
    ELSE Return([i \in 1..Len(ps) |-> FracDiv(FracOf(1), BasisProduct(ps, i, 1))])

\* The interpolator object once both attributes are set
Constructed(positions, weights) ==
    IF weights.kind = "raise" THEN weights
    ELSE Return([t |-> "BarycentricLagrange3DPositionInterpolator",
                 v |-> [positions |-> positions, weights |-> weights.val]])

\* BarycentricLagrange3DPositionInterpolator.__init__, after super().__init__
WithWeights(base) ==
    IF base.kind = "raise" THEN base
    ELSE Constructed(base.val, prepare_basis_weights(base.val))

\* BarycentricLagrange3DPositionInterpolator(positions)
BarycentricLagrange3DPositionInterpolator(positions) ==
    WithWeights(Base3DPositionInterpolator(positions))

\* x += factor * position.x, and so on; denominator += factor
\* A faulty loop body: the coordinates are summed without their factor.
AccumulatedUnweighted(acc, p, factor) ==
    [x |-> FracAdd(acc.x, p.v.x),
     y |-> FracAdd(acc.y, p.v.y),
     z |-> FracAdd(acc.z, p.v.z),
     denominator |-> FracAdd(acc.denominator, factor)]

\* The sums after the loop body for the position p
Accumulated(acc, p, factor) ==
    [x |-> FracAdd(acc.x, FracMul(factor, p.v.x)),
     y |-> FracAdd(acc.y, FracMul(factor, p.v.y)),
     z |-> FracAdd(acc.z, FracMul(factor, p.v.z)),
     denominator |-> FracAdd(acc.denominator, factor)]

\* x / denominator if denominator != 0 else nan
Quotient(sum, denominator) ==
    IF denominator.num # 0 THEN FracDiv(sum, denominator) ELSE NaN

\* The position returned after the loop
Interpolated(acc, at) ==
    Return(Position(Quotient(acc.x, acc.denominator), Quotient(acc.y, acc.denominator),
                    Quotient(acc.z, acc.denominator), at))

\* A faulty loop: without the return at an exact sample time, the factor of
\* that sample divides by zero.
RECURSIVE AccumulateUnchecked(_, _, _, _)
AccumulateUnchecked(self, at, i, acc) ==
    IF i > Len(self.positions) THEN Interpolated(acc, at)
    ELSE IF at = self.positions[i].v.at THEN Raise("ZeroDivisionError")
    ELSE AccumulateUnchecked(self, at, i + 1,
                    Accumulated(acc, self.positions[i],
                                FracDiv(self.weights[i],
                                        FracSub(at, self.positions[i].v.at))))

\* The loop of get_interpolated_position from sample i on
RECURSIVE Accumulate(_, _, _, _)
Accumulate(self, at, i, acc) ==
    IF i > Len(self.positions) THEN Interpolated(acc, at)
    ELSE IF at = self.positions[i].v.at
    THEN Return(Position(self.positions[i].v.x, self.positions[i].v.y,
                         self.positions[i].v.z, self.positions[i].v.at))
    ELSE Accumulate(self, at, i + 1,
                    Accumulated(acc, self.positions[i],
                                FracDiv(self.weights[i],
                                        FracSub(at, self.positions[i].v.at))))

get_interpolated_position(self, at) ==
    Accumulate(self, at, 1,
               [x |-> FracOf(0), y |-> FracOf(0), z |-> FracOf(0),
                denominator |-> FracOf(0)])

\* A faulty query that consumes the weights: it leaves every weight at 1.0.
QueriedWithWeightsReset(self, at) ==
    [self EXCEPT !.weights = [i \in 1..Len(self.weights) |-> FracOf(1)]]

\* The attributes of self after get_interpolated_position(at), which assigns
\* to locals only: x, y, z, denominator and factor.
Queried(self, at) == self

----------------------------------------------------------------------------
(* The Hermite interpolator: piecewise cubic between consecutive samples,   *)
(* defined on the closed span of the sample times only.                    *)

\* Hermite3DPositionInterpolator(positions): the base constructor
Hermite3DPositionInterpolator(positions) ==
    IF Len(positions) < 2 THEN Raise("ValueError")
    ELSE Return([t |-> "Hermite3DPositionInterpolator",
                 v |-> [positions |-> SortedByTime(positions)]])

\* (b - a) / (tb - ta)
Slope(a, b, ta, tb) == FracDiv(FracSub(b, a), FracSub(tb, ta))

\* The tangent estimated at sample i: the finite difference of its
\* neighbours, one-sided at the two ends
Tangent(ps, i, axis) ==
    IF i = 1 THEN Slope(ps[1].v[axis], ps[2].v[axis], ps[1].v.at, ps[2].v.at)
    ELSE IF i = Len(ps)
    THEN Slope(ps[i - 1].v[axis], ps[i].v[axis], ps[i - 1].v.at, ps[i].v.at)
    ELSE Slope(ps[i - 1].v[axis], ps[i + 1].v[axis], ps[i - 1].v.at, ps[i + 1].v.at)

FracCube(s) == FracMul(s, FracMul(s, s))

FracTimes(n, a) == FracMul(FracOf(n), a)

\* The cubic Hermite basis functions at s in [0, 1]
H00(s) == FracAdd(FracSub(FracTimes(2, FracCube(s)), FracTimes(3, FracMul(s, s))), FracOf(1))

H10(s) == FracAdd(FracSub(FracCube(s), FracTimes(2, FracMul(s, s))), s)

H01(s) == FracSub(FracTimes(3, FracMul(s, s)), FracTimes(2, FracCube(s)))

H11(s) == FracSub(FracCube(s), FracMul(s, s))

\* The blend of the end values p0, p1 and the end tangents m0, m1 of a
\* segment of length dt, at the fraction s of the segment
HermiteBlend(p0, p1, m0, m1, dt, s) ==
    FracAdd(FracAdd(FracMul(H00(s), p0), FracMul(H10(s), FracMul(dt, m0))),
            FracAdd(FracMul(H01(s), p1), FracMul(H11(s), FracMul(dt, m1))))

\* The value of an axis at the time at in the segment from sample i on
SegmentValue(ps, i, axis, at) ==
    HermiteBlend(ps[i].v[axis], ps[i + 1].v[axis],
                 Tangent(ps, i, axis), Tangent(ps, i + 1, axis),
                 FracSub(ps[i + 1].v.at, ps[i].v.at),
                 FracDiv(FracSub(at, ps[i].v.at), FracSub(ps[i + 1].v.at, ps[i].v.at)))

\* The position at a time at within the span: the sample at that time if
\* there is one, otherwise the blend over the bracketing segment i
WithinSpan(ps, i, at) ==
    IF at = ps[i].v.at THEN Return(ps[i])
    ELSE IF at = ps[i + 1].v.at THEN Return(ps[i + 1])
    ELSE Return(Position(SegmentValue(ps, i, "x", at), SegmentValue(ps, i, "y", at),
                         SegmentValue(ps, i, "z", at), at))

\* The segment that brackets a time at within the span
Bracket(ps, at) ==
    CHOOSE i \in 1..(Len(ps) - 1) :
        ~FracLess(at, ps[i].v.at) /\ ~FracLess(ps[i + 1].v.at, at)

\* A faulty query: a time outside the span is answered over the nearest
\* segment.
hermite_extrapolated(self, at) ==
    IF FracLess(at, self.positions[1].v.at)
    THEN WithinSpan(self.positions, 1, at)
    ELSE IF FracLess(self.positions[Len(self.positions)].v.at, at)
    THEN WithinSpan(self.positions, Len(self.positions) - 1, at)
    ELSE WithinSpan(self.positions, Bracket(self.positions, at), at)

\* Hermite3DPositionInterpolator.get_interpolated_position
hermite_get_interpolated_position(self, at) ==
    IF \/ FracLess(at, self.positions[1].v.at)
       \/ FracLess(self.positions[Len(self.positions)].v.at, at)
    THEN Raise("ValueError")
    ELSE WithinSpan(self.positions, Bracket(self.positions, at), at)

----------------------------------------------------------------------------
(* Interpolator inputs *)

MaxSamples == 3

SampleTimes == {0, 4, 10}

SampleCoordinates == { <<0, 0, 0>>, <<10, 20, 30>>, <<-7, 3, 5>> }

\* The samples: every coordinate triple at every time, and one sample whose
\* x is float("nan")
Samples ==
    { Position(FracOf(c[1]), FracOf(c[2]), FracOf(c[3]), FracOf(at)) :
        c \in SampleCoordinates, at \in SampleTimes }
    \cup { Position(NaN, FracOf(3), FracOf(5), FracOf(4)) }

\* The lists of up to MaxSamples samples, in any order, times repeated or not
PositionLists == UNION { [1..n -> Samples] : n \in 0..MaxSamples }

\* The lists of samples at pairwise distinct times
DistinctTimeLists ==
    { ps \in PositionLists :
        \A i, j \in 1..Len(ps) : ps[i].v.at = ps[j].v.at => i = j }

\* Query times at, between and outside the sample times
QueryTimes == { FracOf(n) : n \in {-5, 0, 2, 4, 5, 7, 10, 12} } \cup { Frac(5, 2) }

----------------------------------------------------------------------------
(* Reference-frame transforms: a rotation quaternion and a translation.    *)
(* Coordinates are exact fractions.                                         *)

\* CartesianCoordinate(x=..., y=..., z=...)
CartesianCoordinate(x, y, z) == [x |-> x, y |-> y, z |-> z]

\* Quaternion(w, x, y, z)
Quaternion(w, x, y, z) == [w |-> w, x |-> x, y |-> y, z |-> z]

FracNeg(a) == FracSub(FracOf(0), a)

FracSum(a, b, c, d) == FracAdd(FracAdd(a, b), FracAdd(c, d))

\* p * q, the Hamilton product: the rotation q followed by the rotation p
QuaternionProduct(p, q) ==
    Quaternion(
        FracSum(FracMul(p.w, q.w), FracNeg(FracMul(p.x, q.x)),
                FracNeg(FracMul(p.y, q.y)), FracNeg(FracMul(p.z, q.z))),
        FracSum(FracMul(p.w, q.x), FracMul(p.x, q.w),
                FracMul(p.y, q.z), FracNeg(FracMul(p.z, q.y))),
        FracSum(FracMul(p.w, q.y), FracNeg(FracMul(p.x, q.z)),
                FracMul(p.y, q.w), FracMul(p.z, q.x)),
        FracSum(FracMul(p.w, q.z), FracMul(p.x, q.y),
                FracNeg(FracMul(p.y, q.x)), FracMul(p.z, q.w)))

NormSquared(q) ==
    FracSum(FracMul(q.w, q.w), FracMul(q.x, q.x), FracMul(q.y, q.y), FracMul(q.z, q.z))

\* The conjugate of q over n
ConjugateOver(q, n) ==
    Quaternion(FracDiv(q.w, n), FracDiv(FracNeg(q.x), n),
               FracDiv(FracNeg(q.y), n), FracDiv(FracNeg(q.z), n))

\* Quaternion.inverse(): the conjugate over the squared norm
QuaternionInverse(q) == ConjugateOver(q, NormSquared(q))

VectorPart(q) == CartesianCoordinate(q.x, q.y, q.z)

\* Quaternion.rotate_vector(v): the vector part of q * (0, v) * q^-1
rotate_vector(q, v) ==
    VectorPart(QuaternionProduct(
                   QuaternionProduct(q, Quaternion(FracOf(0), v.x, v.y, v.z)),
                   QuaternionInverse(q)))

\* Transform(rotation=..., translation=...)
Transform(rotation, translation) ==
    [t |-> "Transform", v |-> [rotation |-> rotation, translation |-> translation]]

\* The coordinate a + b
Translated(a, b) ==
    CartesianCoordinate(FracAdd(a.x, b.x), FracAdd(a.y, b.y), FracAdd(a.z, b.z))

\* Transform.apply_to_position
apply_to_position(self, position) ==
    Translated(rotate_vector(self.v.rotation, position), self.v.translation)

\* The coordinate -a
Opposite(a) == CartesianCoordinate(FracNeg(a.x), FracNeg(a.y), FracNeg(a.z))

\* Transform.inverse from the inverted rotation on
InverseWith(rotation, translation) ==
    Transform(rotation, Opposite(rotate_vector(rotation, translation)))

\* A faulty inverse: the translation is negated without being rotated.
inverse_unrotated(self) ==
    Transform(QuaternionInverse(self.v.rotation), Opposite(self.v.translation))

\* Transform.inverse
inverse(self) == InverseWith(QuaternionInverse(self.v.rotation), self.v.translation)

\* Transform.compose
compose(self, other) ==
    Transform(QuaternionProduct(self.v.rotation, other.v.rotation),
              Translated(rotate_vector(self.v.rotation, other.v.translation),
                         self.v.translation))

----------------------------------------------------------------------------
(* Transform inputs *)

\* Unit quaternions with rational components: the identity, the half turn
\* about +Z, and the thirds of a turn about (1, 1, 1) and about (-1, 1, -1)
Rotations ==
    { Quaternion(FracOf(1), FracOf(0), FracOf(0), FracOf(0)),
      Quaternion(FracOf(0), FracOf(0), FracOf(0), FracOf(1)),
      Quaternion(Frac(1, 2), Frac(1, 2), Frac(1, 2), Frac(1, 2)),
      Quaternion(Frac(1, 2), Frac(-1, 2), Frac(1, 2), Frac(-1, 2)) }

Translations ==
    { CartesianCoordinate(FracOf(0), FracOf(0), FracOf(0)),
      CartesianCoordinate(FracOf(1), FracOf(2), FracOf(3)),
      CartesianCoordinate(FracOf(-4), FracOf(0), Frac(5, 2)) }

Transforms == { Transform(r, t) : r \in Rotations, t \in Translations }

Points ==
    { CartesianCoordinate(FracOf(0), FracOf(0), FracOf(0)),
      CartesianCoordinate(FracOf(4), FracOf(0), FracOf(-1)),
      CartesianCoordinate(FracOf(1), FracOf(-2), Frac(7, 2)) }

----------------------------------------------------------------------------
(* The CPF header record: its coded fields map through closed tables from  *)
(* integer codes to labels, and its validity window runs from start to end. *)
(* An instant is the number of its day.                                     *)

TargetClasses ==
    [c \in {0, 1, 3, 4, 5} |->
        CASE c = 0 -> "No Retro-Reflector"
          [] c = 1 -> "Passive Retro-Reflector"
          [] c = 3 -> "Synchronous Transponder"
          [] c = 4 -> "Asynchronous Transponder"
          [] c = 5 -> "Other"]

ReferenceFrames ==
    [c \in {0, 1, 2} |->
        CASE c = 0 -> "Geocentric True Body-Fixed"
          [] c = 1 -> "Geocentric Space Fixed Inertial (ECI)"
          [] c = 2 -> "Geocentric Space Fixed Mean Of Date (J2000)"]

RotationalAngleTypes ==
    [c \in {0, 1, 2} |->
        CASE c = 0 -> "Not Applicable"
          [] c = 1 -> "Lunar Euler Angles"
          [] c = 2 -> "North Pole Right Ascension And Declination"]

CenterOfMassCorrections == [c \in {0, 1} |-> c = 1]

LocationDynamics ==
    [c \in 0..10 |->
        CASE c = 0 -> "Other"
          [] c = 1 -> "Earth Orbit"
          [] c = 2 -> "Lunar Orbit"
          [] c = 3 -> "Lunar Surface"
          [] c = 4 -> "Mars Orbit"
          [] c = 5 -> "Mars Surface"
          [] c = 6 -> "Venus Orbit"
          [] c = 7 -> "Mercury Orbit"
          [] c = 8 -> "Asteroid Orbit"
          [] c = 9 -> "Asteroid Surface"
          [] c = 10 -> "Solar Orbit"]

\* The table of each coded field
CodeTables ==
    [target_class |-> TargetClasses,
     reference_frame |-> ReferenceFrames,
     rotational_angle_type |-> RotationalAngleTypes,
     center_of_mass_correction |-> CenterOfMassCorrections,
     location_dynamics |-> LocationDynamics]

\* The coded fields of data whose code is no key of the table of the field
InvalidCodes(data) ==
    { f \in DOMAIN CodeTables : data[f] \notin DOMAIN CodeTables[f] }

\* The header of data, every coded field replaced by its label
Labelled(data) ==
    [t |-> "CPFHeader",
     v |-> [f \in DOMAIN data |->
               IF f \in DOMAIN CodeTables THEN CodeTables[f][data[f]] ELSE data[f]]]

\* A faulty validation: the window is not looked at.
model_validate_codes_only(data) ==
    IF InvalidCodes(data) # {} THEN Raise("ValidationError")
    ELSE Return(Labelled(data))

\* CPFHeader.model_validate(data): the field validators, then the check of
\* the window
model_validate(data) ==
    IF InvalidCodes(data) # {} THEN Raise("ValidationError")
    ELSE IF ~(data.start < data.end) THEN Raise("ValidationError")
    ELSE Return(Labelled(data))

----------------------------------------------------------------------------
(* CPF header inputs *)

\* The days of the window ends
WindowDays == {6, 7}

\* Codes inside and outside the tables
Codes ==
    [target_class |-> {1, 2, 3},
     reference_frame |-> {2, 3},
     rotational_angle_type |-> {2, 3},
     center_of_mass_correction |-> {0, 1, 2},
     location_dynamics |-> {5, 11}]

HeaderData ==
    { [start |-> start, end |-> end, target_class |-> tc, reference_frame |-> rf,
       rotational_angle_type |-> ra, center_of_mass_correction |-> cm,
       location_dynamics |-> ld] :
        start \in WindowDays, end \in WindowDays, tc \in Codes.target_class,
        rf \in Codes.reference_frame, ra \in Codes.rotational_angle_type,
        cm \in Codes.center_of_mass_correction, ld \in Codes.location_dynamics }

----------------------------------------------------------------------------
(* The calls.  A behaviour is one call: given is the case the argument was *)
(* built from, arg the argument, and ret the outcome once the call is done.*)
(* A behaviour of an interpolator is its construction from the list given, *)
(* which sets interpolator, then queries: arg is the argument and ret the   *)
(* outcome of the latest call.                                             *)

Functions ==
    {"parse_tle", "parse_scientific_notation", "parse_id_field",
     "parse_classification_field", "parse_epoch_field", "match",
     "BarycentricLagrange3DPositionInterpolator",
     "Hermite3DPositionInterpolator",
     "apply_to_position", "inverse", "compose", "model_validate"}

Init ==
    /\ pc = "call"
    /\ ret = Pending
    /\ interpolator = None
    /\ \/ /\ fn = "parse_tle"
          /\ \E c \in TleCases : given = c /\ arg = StrVal(TleText(c))
       \/ /\ fn = "parse_scientific_notation"
          /\ \E c \in ScientificCases : given = c /\ arg = StrVal(ScientificText(c))
       \/ /\ fn = "parse_id_field"
          /\ \E x \in IdInputs : given = x /\ arg = x
       \/ /\ fn = "parse_classification_field"
          /\ \E x \in ClassificationInputs : given = x /\ arg = x
       \/ /\ fn = "parse_epoch_field"
          /\ \E x \in EpochInputs : given = x /\ arg = x
       \/ /\ fn = "match"
          /\ \E c \in GrammarCases : given = c /\ arg = StrVal(LineText(c))
       \/ /\ fn = "BarycentricLagrange3DPositionInterpolator"
          /\ \E ps \in PositionLists : given = ListVal(ps) /\ arg = ListVal(ps)
       \/ /\ fn = "Hermite3DPositionInterpolator"
          /\ \E ps \in DistinctTimeLists : given = ListVal(ps) /\ arg = ListVal(ps)
       \/ /\ fn = "apply_to_position"
          /\ \E T \in Transforms, p \in Points :
                 given = [self |-> T, position |-> p] /\ arg = given
       \/ /\ fn = "inverse"
          /\ \E T \in Transforms : given = [self |-> T] /\ arg = given
       \/ /\ fn = "compose"
          /\ \E BC \in Transforms, AB \in Transforms :
                 given = [self |-> BC, other |-> AB] /\ arg = given
       \/ /\ fn = "model_validate"
          /\ \E data \in HeaderData : given = data /\ arg = data

Done(outcome) ==
    /\ pc' = "done"
    /\ ret' = outcome
    /\ UNCHANGED <<fn, given, arg, interpolator>>

CallParseTle ==
    /\ pc = "call" /\ fn = "parse_tle"
    /\ Done(parse_tle(arg.v))

CallParseScientificNotation ==
    /\ pc = "call" /\ fn = "parse_scientific_notation"
    /\ Done(Return(parse_scientific_notation(arg.v)))

CallParseIdField ==
    /\ pc = "call" /\ fn = "parse_id_field"
    /\ Done(parse_id_field(arg))

CallParseClassificationField ==
    /\ pc = "call" /\ fn = "parse_classification_field"
    /\ Done(parse_classification_field(arg))

CallParseEpochField ==
    /\ pc = "call" /\ fn = "parse_epoch_field"
    /\ Done(parse_epoch_field(arg))

\* pattern.match(line), for the pattern of the grammar of the case
CallMatch ==
    /\ pc = "call" /\ fn = "match"
    /\ Done(Return(MatchObject(RegexMatch(GrammarPatterns[given.grammar], arg.v))))

\* The outcome of the constructor: the error it raised, or the object
Construction(outcome) ==
    IF outcome.kind = "raise" THEN Done(outcome)
    ELSE /\ pc' = "built"
         /\ interpolator' = outcome.val
         /\ ret' = Return(None)
         /\ UNCHANGED <<fn, given, arg>>

\* interpolator = BarycentricLagrange3DPositionInterpolator(positions)
Construct ==
    /\ pc = "call" /\ fn = "BarycentricLagrange3DPositionInterpolator"
    /\ Construction(BarycentricLagrange3DPositionInterpolator(arg.v))

\* interpolator.get_interpolated_position(at)
CallGetInterpolatedPosition ==
    /\ pc \in {"built", "queried"}
    /\ fn = "BarycentricLagrange3DPositionInterpolator"
    /\ \E at \in QueryTimes :
           /\ arg' = at
           /\ ret' = get_interpolated_position(interpolator.v, at)
           /\ interpolator' = [interpolator EXCEPT !.v = Queried(interpolator.v, at)]
    /\ pc' = "queried"
    /\ UNCHANGED <<fn, given>>

\* interpolator = Hermite3DPositionInterpolator(positions)
ConstructHermite ==
    /\ pc = "call" /\ fn = "Hermite3DPositionInterpolator"
    /\ Construction(Hermite3DPositionInterpolator(arg.v))

\* interpolator.get_interpolated_position(at), of a Hermite interpolator
CallHermiteGetInterpolatedPosition ==
    /\ pc \in {"built", "queried"}
    /\ fn = "Hermite3DPositionInterpolator"
    /\ \E at \in QueryTimes :
           /\ arg' = at
           /\ ret' = hermite_get_interpolated_position(interpolator.v, at)
    /\ pc' = "queried"
    /\ UNCHANGED <<fn, given, interpolator>>

\* transform.apply_to_position(position)
CallApplyToPosition ==
    /\ pc = "call" /\ fn = "apply_to_position"
    /\ Done(Return(apply_to_position(arg.self, arg.position)))

\* transform.inverse()
CallInverse ==
    /\ pc = "call" /\ fn = "inverse"
    /\ Done(Return(inverse(arg.self)))

\* BC.compose(AB)
CallCompose ==
    /\ pc = "call" /\ fn = "compose"
    /\ Done(Return(compose(arg.self, arg.other)))

\* CPFHeader.model_validate(data)
CallModelValidate ==
    /\ pc = "call" /\ fn = "model_validate"
    /\ Done(model_validate(arg))

Next ==
    \/ CallParseTle
    \/ CallParseScientificNotation
    \/ CallParseIdField
    \/ CallParseClassificationField
    \/ CallParseEpochField
    \/ CallMatch
    \/ Construct
    \/ CallGetInterpolatedPosition
    \/ ConstructHermite
    \/ CallHermiteGetInterpolatedPosition
    \/ CallApplyToPosition
    \/ CallInverse
    \/ CallCompose
    \/ CallModelValidate

Spec == Init /\ [][Next]_vars

----------------------------------------------------------------------------
(* Properties of parse_tle *)

DoneWith(f) == pc = "done" /\ fn = f

IsSatellite(outcome) == outcome.kind = "return" /\ outcome.val.t = "Satellite"

\* The number of lines of the case's document that are not blank.
NonBlankCount(c) ==
    Cardinality({i \in 1..Len(DocLines(c)) :
                    \E j \in 1..Len(DocLines(c)[i]) :
                        DocLines(c)[i][j] \notin Whitespace})

\* The two lines parse_tle takes as line 1 and line 2 are the case's TLE lines.
Aligned(c) == (c.n = 2 /\ ~c.named) \/ (c.n >= 3 /\ c.named)

\* The lines taken as line 1 and line 2 have the shape of their grammar.
GrammarOk(c) == Aligned(c) /\ c.shape1 = "ok" /\ c.shape2 = "ok"

\* The id token is made of decimal digits, or starts with a letter.
IdDecodes(token) ==
    token[1] \in UpperAZ \/ \A i \in 1..Len(token) : token[i] \in Digits

\* The epoch tokens whose day of the year lies outside 1..367.
InvalidDayTokens ==
    { <<"2", "0", "0", "0", "0", ".", "5", "0", "0", "0", "0", "0", "0", "0">>,
      <<"2", "0", "3", "6", "7", ".", "0", "0", "0", "0", "0", "0", "0", "1">> }

\* The satellite record a call returned.
Record == ret.val.v

\* C1: with exactly two non-blank lines parse_tle treats them as line 1 and
\* line 2 and the name of the record is the empty string; with exactly three,
\* the first is the name without its surrounding whitespace and the second
\* and third are line 1 and line 2.
C1_TwoOrThreeLines ==
    DoneWith("parse_tle") =>
        /\ NonBlankCount(given) = 2 =>
              /\ ret = parse_tle_lines(<<>>, CaseLines(given)[1], CaseLines(given)[2])
              /\ IsSatellite(ret) => Record.name = StrVal(<<>>)
        /\ NonBlankCount(given) = 3 =>
              /\ ret = parse_tle_lines(CaseLines(given)[1], CaseLines(given)[2],
                                       CaseLines(given)[3])
              /\ IsSatellite(ret) => Record.name = StrVal(CaseLines(given)[1])

\* A document of a padded name line and two padded TLE lines, with blank
\* lines before and between them, gave a record under the name.
C1_Witness ==
    /\ DoneWith("parse_tle")
    /\ NonBlankCount(given) = 3 /\ given.named
    /\ given.lead >= 1 /\ given.inner >= 1 /\ given.pad >= 1
    /\ IsSatellite(ret)
    /\ Record.name = StrVal(SatelliteName)
    /\ Record.id = IntVal(25544)

\* C2: with fewer than two non-blank lines, or with a line 1 or a line 2 that
\* does not match its grammar, parse_tle returns None and does not raise.
C2_NoTleIsNone ==
    DoneWith("parse_tle") =>
        (NonBlankCount(given) < 2 \/ ~GrammarOk(given) => ret = Return(None))

\* A line 1 whose day of the year has seven decimals, before a well-formed
\* line 2, gave None.
C2_Witness ==
    /\ DoneWith("parse_tle")
    /\ NonBlankCount(given) = 2 /\ ~given.named
    /\ given.shape1 = "short_day" /\ given.shape2 = "ok"
    /\ ret = Return(None)

\* C3: parse_tle returns a record only when every decoder gave a value and
\* the record passed validation, and the record then holds every field; when
\* a decoder returns None or validation fails, the result is None.
C3_AllOrNothing ==
    DoneWith("parse_tle") =>
        /\ IsSatellite(ret) =>
              /\ \A f \in DOMAIN Record : Record[f] # None
              /\ DOMAIN Record =
                     {"id", "name", "classification", "designator", "year", "day",
                      "jd", "ephemeris", "set", "drag", "raan", "inclination",
                      "eccentricity", "argument_of_perigee", "mean_anomaly",
                      "mean_motion", "first_derivative_of_mean_motion",
                      "second_derivative_of_mean_motion", "number_of_revolutions"}
              /\ ID(Record)
              /\ GrammarOk(given)
              /\ IdDecodes(given.id1)
              /\ given.epoch \notin InvalidDayTokens
        /\ GrammarOk(given) /\ ~IdDecodes(given.id1) => ret = Return(None)
        /\ GrammarOk(given) /\ IdDecodes(given.id1)
               /\ given.cls \in Classifications
               /\ given.epoch \in InvalidDayTokens => ret = Return(None)

\* Two well-formed lines whose day of the year is 000.5 decoded field by
\* field, failed the validation of the record, and gave None.
C3_Witness ==
    /\ DoneWith("parse_tle")
    /\ GrammarOk(given)
    /\ given.id1 = <<"2", "5", "5", "4", "4">> /\ given.cls = <<"U">>
    /\ given.epoch = <<"2", "0", "0", "0", "0", ".", "5", "0", "0", "0", "0", "0", "0", "0">>
    /\ parse_epoch_field(StrVal(given.epoch)).val # None
    /\ ret = Return(None)

Letters(x) == SelectSeq(x.v, LAMBDA ch : ch \notin Whitespace)

\* The classification a letter stands for, in either case.
ClassLetter(ch) ==
    IF ch \in {"U", "u"} THEN <<"U">>
    ELSE IF ch \in {"C", "c"} THEN <<"C">>
    ELSE IF ch \in {"S", "s"} THEN <<"S">>
    ELSE <<>>

\* The value is one character between optional whitespace.
SingleCharacter(x) ==
    /\ IsStr(x)
    /\ Len(Letters(x)) = 1
    /\ \A i, j \in 1..Len(x.v) :
          i < j /\ x.v[i] \notin Whitespace => x.v[j] \in Whitespace

C6_IdsMustAgree ==
    DoneWith("parse_tle") /\ GrammarOk(given) /\ given.id1 # given.id2 =>
        ~IsSatellite(ret)

----------------------------------------------------------------------------
(* Properties of the field decoders *)

\* The case has the shape of the scientific notation: an optional sign, five
\* digits, a sign and one digit.
Conforming(c) ==
    /\ c.lead \in {<<>>, <<"+">>, <<"-">>}
    /\ Len(c.mantissa) = 5 /\ \A i \in 1..5 : c.mantissa[i] \in Digits
    /\ c.esign \in {<<"+">>, <<"-">>}
    /\ Len(c.edigits) = 1 /\ c.edigits[1] \in Digits

\* The values parse_scientific_notation decodes from conforming cases.
DecodedValues ==
    {parse_scientific_notation(ScientificText(c)) :
        c \in {d \in ScientificCases : Conforming(d)}}

\* C7: for a value that does not have the shape of the scientific notation,
\* parse_scientific_notation reports a failure that no decoded value equals.
C7_FailureIsDistinguishable ==
    DoneWith("parse_scientific_notation") /\ ~Conforming(given) =>
        ret.val \notin DecodedValues

\* The number the digits stand for in the base, most significant first.
RECURSIVE Weighted(_, _)
Weighted(ds, base) ==
    IF ds = <<>> THEN 0
    ELSE Weighted(SubSeq(ds, 1, Len(ds) - 1), base) * base + DigitValue(ds[Len(ds)])

\* m * 10^(e - 5) for 0 <= m < 10^5, as a decimal without sign.
Scaled(m, e) ==
    IF e >= 5 THEN Dec(FALSE, m * Pow10(e - 5), <<>>)
    ELSE IF e > 0 THEN Dec(FALSE, m \div Pow10(5 - e),
                           NatToDigits(m % Pow10(5 - e), 5 - e))
    ELSE Dec(FALSE, 0, [i \in 1..(-e) |-> 0] \o NatToDigits(m, 5))

\* The value a conforming case stands for.
Meaning(c) ==
    Signed(c.lead = <<"-">>,
           Scaled(Weighted(c.mantissa, 10),
                  IF c.esign = <<"-">> THEN -Weighted(c.edigits, 10)
                  ELSE Weighted(c.edigits, 10)))

\* C8: for a value of the shape of the scientific notation,
\* parse_scientific_notation returns sign * (DDDDD / 100000) * 10^exponent:
\* "+12345-3" gives 0.00012345 and "00000-0" gives 0.0.
C8_ScientificValue ==
    DoneWith("parse_scientific_notation") /\ Conforming(given) =>
        /\ ret = Return(FloatVal(Meaning(given)))
        /\ arg.v = <<"+", "1", "2", "3", "4", "5", "-", "3">> =>
              ret.val.v = [neg |-> FALSE, ip |-> 0, fd |-> <<0, 0, 0, 1, 2, 3, 4, 5>>]
        /\ arg.v = <<"0", "0", "0", "0", "0", "-", "0">> => ret.val.v = DecZero

\* "-12345+9" gave -123450000.0.
C8_Witness ==
    /\ DoneWith("parse_scientific_notation")
    /\ Conforming(given)
    /\ arg.v = <<"-", "1", "2", "3", "4", "5", "+", "9">>
    /\ ret = Return(FloatVal([neg |-> TRUE, ip |-> 123450000, fd |-> <<>>]))

\* The base of an id: 36 when its first character is a letter, otherwise 10.
BaseOf(x) == IF x.v # <<>> /\ x.v[1] \in UpperAZ \cup LowerAZ THEN 36 ELSE 10

\* The characters that are digits of the base.
AlphabetOf(base) == IF base = 36 THEN Digits \cup UpperAZ \cup LowerAZ ELSE Digits

\* C9: parse_id_field decodes in base 36 when the first character is a
\* letter and in base 10 otherwise, and returns None whenever a character of
\* the value lies outside the alphabet of that base; a value made of the
\* alphabet decodes to the number its digits stand for.
C9_OutsideAlphabetIsNone ==
    DoneWith("parse_id_field") /\ IsStr(given) =>
        /\ (\E i \in 1..Len(given.v) : given.v[i] \notin AlphabetOf(BaseOf(given)))
              => ret = Return(None)
        /\ given.v # <<>>
              /\ (\A i \in 1..Len(given.v) : given.v[i] \in AlphabetOf(BaseOf(given)))
              => ret = Return(IntVal(Weighted(given.v, BaseOf(given))))

\* The value starts with a two-digit year.
HasTwoDigitYear(x) ==
    IsStr(x) /\ Len(x.v) >= 2 /\ x.v[1] \in Digits /\ x.v[2] \in Digits

\* The year the claim gives the two-digit year at the start of the token.
YearOf(token) ==
    IF Weighted(SubSeq(token, 1, 2), 10) <= 56
    THEN 2000 + Weighted(SubSeq(token, 1, 2), 10)
    ELSE 1900 + Weighted(SubSeq(token, 1, 2), 10)

\* C10: parse_epoch_field gives the year 2000 + yy for every two-digit year
\* yy in 00..56 and 1900 + yy for every yy in 57..99: the cutoff is 57.  The
\* record parse_tle returns carries the same year.
C10_EpochCutoff ==
    /\ DoneWith("parse_epoch_field") /\ HasTwoDigitYear(given) =>
          /\ SubSeq(given.v, 3, Len(given.v)) \in DayTokens \ {<<"X">>} =>
                ret.val # None
          /\ ret.val # None => ret.val.v[1] = IntVal(YearOf(given.v))
          /\ Slice(given.v, 1, 5) = <<"5", "6", "0", "0", "1">> => ret.val.v[1] = IntVal(2056)
          /\ Slice(given.v, 1, 5) = <<"5", "7", "0", "0", "1">> => ret.val.v[1] = IntVal(1957)
    /\ DoneWith("parse_tle") /\ IsSatellite(ret) =>
          Record.year = IntVal(YearOf(given.epoch))

\* The two-digit year 57 gave the year 1957.
C10_Witness ==
    /\ DoneWith("parse_epoch_field")
    /\ HasTwoDigitYear(given)
    /\ Slice(given.v, 1, 5) = <<"5", "7", "0", "0", "1">>
    /\ ret.kind = "return" /\ ret.val.t = "tuple"
    /\ ret.val.v[1] = IntVal(1957)

----------------------------------------------------------------------------
(* C11 *)

\* C11: every record returned by parse_tle has an eccentricity equal to the
\* seven digits of the eccentricity field of line 2 read as the fraction
\* digits after "0.", so that it is at least 0 and less than 1.
C11_EccentricityIsFraction ==
    DoneWith("parse_tle") /\ IsSatellite(ret) =>
        /\ Len(given.ecc) = 7
        /\ Record.eccentricity = FloatVal(Dec(FALSE, 0, DigitValues(given.ecc)))
        /\ Record.eccentricity.v.ip = 0 /\ ~Record.eccentricity.v.neg

\* The largest field, 9999999, gave the eccentricity 0.9999999.
C11_Witness ==
    /\ DoneWith("parse_tle") /\ IsSatellite(ret)
    /\ given.ecc = <<"9", "9", "9", "9", "9", "9", "9">>
    /\ Record.eccentricity = FloatVal([neg |-> FALSE, ip |-> 0, fd |-> <<9, 9, 9, 9, 9, 9, 9>>])

----------------------------------------------------------------------------
(* C12 *)

\* The line of the same tokens with one space between every two of them.
SingleSpaced(c) == [c EXCEPT !.gap = 1, !.wide = 0, !.width = 1]

\* C12: for each of the six record grammars, a line whose fields are
\* separated by any non-empty runs of spaces and tabs matches exactly when the
\* line with the same fields separated by single spaces matches, and the two
\* matches extract the same field substrings.
C12_WhitespaceInsensitive ==
    DoneWith("match") /\ given.lead = 0 /\ given.trail = 0 =>
        ret = Return(MatchObject(RegexMatch(GrammarPatterns[given.grammar],
                                            LineText(SingleSpaced(given)))))

\* An H2 line with space-tab gaps and one gap of three characters matched, and
\* its NORAD id is that of the single-spaced line.
C12_Witness ==
    /\ DoneWith("match") /\ given.grammar = "h2"
    /\ given.lead = 0 /\ given.trail = 0
    /\ given.gap = 2 /\ given.wide = 4 /\ given.width = 3
    /\ ret.val # None
    /\ ret.val.v.norad_id = StrVal(given.tokens[4])

----------------------------------------------------------------------------
(* C13 *)

\* The characters of a field of a line: a piece of one of its tokens, or
\* nothing when the line has no such token.
Piece(tokens, f) ==
    IF f.tok > Len(tokens) THEN None
    ELSE StrVal(Slice(tokens[f.tok], f.first,
                      IF f.last = 0 THEN Len(tokens[f.tok]) ELSE f.last))

\* The fields of a well-formed line c, by name.
FieldsOf(c) ==
    [name \in {GroupFields[c.grammar][k].name : k \in DOMAIN GroupFields[c.grammar]} |->
        Piece(c.tokens,
              GroupFields[c.grammar][CHOOSE k \in DOMAIN GroupFields[c.grammar] :
                                        GroupFields[c.grammar][k].name = name])]

\* What the shape of the line c calls for: a match with the fields of the
\* line, or no match.
Expected(c) ==
    IF c.ok THEN Return([t |-> "Match", v |-> FieldsOf(c)]) ELSE Return(None)

\* C13: a TLE line 1 or line 2 matches its grammar exactly when the whole
\* line is every required field in order, each of its exact shape; a missing
\* field, an extra trailing token, or a wrong count of digits or characters
\* gives no match, and the groups of a match are the corresponding pieces of
\* the line.  A line followed by its newline matches as the line alone does.
C13_TleNoPartialMatch ==
    DoneWith("match") /\ given.grammar \in {"line1", "line2"} => ret = Expected(given)

\* A line 1 with an extra trailing token, the nine fields of the sample
\* followed by 7, did not match.
C13_Witness ==
    /\ DoneWith("match") /\ given.grammar = "line1"
    /\ Len(given.tokens) = 10
    /\ SubSeq(given.tokens, 1, 9) = GrammarSamples.line1
    /\ ret = Return(None)

----------------------------------------------------------------------------
(* C14 *)

\* C14: a line matches the CPF H1 grammar exactly when it is H1, CPF, a
\* 1-digit version, a source of 3 letters or digits, a 4-digit year, a month,
\* day and hour of 1 or 2 digits, a sequence number of 1 to 3 digits, a
\* sub-daily number of 1 or 2 digits and a target name of 1 to 10 non-space
\* characters, optionally followed by one notes token of 1 to 10 non-space
\* characters; the groups of a match are these tokens, and notes is None
\* when the line has no notes token.
C14_H1Grammar ==
    DoneWith("match") /\ given.grammar = "h1" => ret = Expected(given)

\* The H1 sample, which has no notes token, matched with the target name
\* apollo15 and notes None.
C14_Witness ==
    /\ DoneWith("match") /\ given.grammar = "h1"
    /\ given.tokens = GrammarSamples.h1 /\ Len(given.tokens) = 11
    /\ ret.val # None
    /\ ret.val.v.target_name = StrVal(<<"a", "p", "o", "l", "l", "o", "1", "5">>)
    /\ ret.val.v.notes = None

----------------------------------------------------------------------------
(* C15 *)

----------------------------------------------------------------------------
(* C16 *)

----------------------------------------------------------------------------
(* C17 *)

\* C17: a line matches the CPF record-20 grammar exactly when it is 20, a
\* direction flag 0, 1 or 2 and three velocity components, each an optional
\* sign, digits, a dot and exactly 6 decimal digits; the groups of a match
\* are these tokens.
C17_Record20Grammar ==
    DoneWith("match") /\ given.grammar = "e20" => ret = Expected(given)

\* The record-20 sample with the first component written with a plus sign
\* matched, and gave the three components.
C17_Witness ==
    /\ DoneWith("match") /\ given.grammar = "e20"
    /\ Len(given.tokens) = 5
    /\ given.tokens[3] = <<"+", "2", "1", "9", "0", ".", "1", "2", "3", "4", "5", "6">>
    /\ ret.val # None
    /\ ret.val.v.vx = StrVal(given.tokens[3])
    /\ ret.val.v.vy = StrVal(given.tokens[4])
    /\ ret.val.v.vz = StrVal(given.tokens[5])

----------------------------------------------------------------------------
(* C18 *)

Lagrange == "BarycentricLagrange3DPositionInterpolator"

\* C18: the construction of an interpolator from fewer than two samples
\* raises ValueError; no interpolator object comes to exist for such a list,
\* so no query is ever made of one, and every object that exists holds at
\* least two samples.
C18_TooFewSamplesFailAtConstruction ==
    /\ fn = Lagrange /\ Len(given.v) < 2 =>
           /\ interpolator = None
           /\ pc \in {"call", "done"}
           /\ pc = "done" => ret = Raise("ValueError")
    /\ interpolator # None => Len(interpolator.v.positions) >= 2

\* The construction from a single sample raised ValueError and left no object.
C18_Witness ==
    /\ fn = Lagrange /\ pc = "done"
    /\ Len(given.v) = 1
    /\ ret = Raise("ValueError")
    /\ interpolator = None

----------------------------------------------------------------------------
(* C19 *)

\* C19: a query of a constructed barycentric Lagrange interpolator at a time
\* equal to the time of one of the samples it was built from returns that
\* sample: its x, y, z and its time.
C19_ExactSampleTime ==
    fn = Lagrange /\ pc = "queried" =>
        \A k \in 1..Len(given.v) : given.v[k].v.at = arg => ret = Return(given.v[k])

\* An interpolator built from three samples given out of time order, queried
\* at the time 4 of the sample (-7, 3, 5), returned that sample.
C19_Witness ==
    /\ fn = Lagrange /\ pc = "queried"
    /\ Len(given.v) = 3
    /\ given.v[1].v.at = FracOf(10) /\ given.v[3].v.at = FracOf(0)
    /\ given.v[2] = Position(FracOf(-7), FracOf(3), FracOf(5), FracOf(4))
    /\ arg = FracOf(4)
    /\ ret = Return(given.v[2])

----------------------------------------------------------------------------
(* C20 *)

\* a + (b - a)(t - ta) / (tb - ta)
Lerp(a, b, ta, tb, t) ==
    FracAdd(a, FracDiv(FracMul(FracSub(b, a), FracSub(t, ta)), FracSub(tb, ta)))

\* The point at time t of the line through the samples p and q
Linear(p, q, t) ==
    Position(Lerp(p.v.x, q.v.x, p.v.at, q.v.at, t), Lerp(p.v.y, q.v.y, p.v.at, q.v.at, t),
             Lerp(p.v.z, q.v.z, p.v.at, q.v.at, t), t)

\* Whether no coordinate of the samples ps is a not-a-number
FiniteSamples(ps) ==
    \A i \in 1..Len(ps) : \A axis \in {"x", "y", "z"} : ps[i].v[axis] # NaN

\* C20: a barycentric Lagrange interpolator constructed from exactly two
\* samples of finite coordinates at distinct times returns, for every query
\* time t, the linear interpolation
\* a + (b - a)(t - ta) / (tb - ta) of the two samples on every axis, at time t.
C20_TwoSamplesAreLinear ==
    fn = Lagrange /\ pc = "queried" /\ Len(given.v) = 2
        /\ given.v[1].v.at # given.v[2].v.at /\ FiniteSamples(given.v) =>
        ret = Return(Linear(given.v[1], given.v[2], arg))

\* The samples (0, 0, 0) at 0 and (10, 20, 30) at 10, queried at 5, gave
\* (5, 10, 15) at 5.
C20_Witness ==
    /\ fn = Lagrange /\ pc = "queried"
    /\ given.v = << Position(FracOf(0), FracOf(0), FracOf(0), FracOf(0)),
                    Position(FracOf(10), FracOf(20), FracOf(30), FracOf(10)) >>
    /\ arg = FracOf(5)
    /\ ret = Return(Position(FracOf(5), FracOf(10), FracOf(15), FracOf(5)))

----------------------------------------------------------------------------
(* C21 *)

Axes == {"x", "y", "z"}

\* a <= b, false of a not-a-number
FracLeq(a, b) == a # NaN /\ b # NaN /\ ~FracLess(b, a)

\* Whether the values of an axis never decrease, or never increase, along
\* the samples ps in time order.
Monotonic(ps, axis) ==
    \/ \A i \in 1..(Len(ps) - 1) : FracLeq(ps[i].v[axis], ps[i + 1].v[axis])
    \/ \A i \in 1..(Len(ps) - 1) : FracLeq(ps[i + 1].v[axis], ps[i].v[axis])

\* Whether v lies in the closed range spanned by a and b.
Within(v, a, b) ==
    \/ FracLeq(a, v) /\ FracLeq(v, b)
    \/ FracLeq(b, v) /\ FracLeq(v, a)

Midpoint(ta, tb) == FracDiv(FracAdd(ta, tb), FracOf(2))

\* C21, as the specification states it: a query at the midpoint between two
\* adjacent samples returns, on every axis whose values are monotonic along
\* the samples, a value within the closed range of the two neighbours.
C21_MidpointWithinNeighbours ==
    fn = Lagrange /\ pc = "queried" =>
        \A i \in 1..(Len(interpolator.v.positions) - 1) :
            arg = Midpoint(interpolator.v.positions[i].v.at,
                           interpolator.v.positions[i + 1].v.at) =>
                \A axis \in Axes :
                    Monotonic(interpolator.v.positions, axis) =>
                        Within(ret.val.v[axis],
                               interpolator.v.positions[i].v[axis],
                               interpolator.v.positions[i + 1].v[axis])

----------------------------------------------------------------------------
(* C22 *)

\* The sum over the samples from i on of weight / (at - time)
RECURSIVE FactorSum(_, _, _)
FactorSum(self, at, i) ==
    IF i > Len(self.positions) THEN FracOf(0)
    ELSE FracAdd(FracDiv(self.weights[i], FracSub(at, self.positions[i].v.at)),
                 FactorSum(self, at, i + 1))

SampleTimesOf(self) == { self.positions[i].v.at : i \in 1..Len(self.positions) }

\* Whether t lies strictly before the first or strictly after the last sample
OutsideSpan(self, t) ==
    \/ FracLess(t, self.positions[1].v.at)
    \/ FracLess(self.positions[Len(self.positions)].v.at, t)

\* C22, as the specification states it: a query of a constructed barycentric
\* Lagrange interpolator, at any time inside or outside the span of the
\* samples, does not raise; it returns a position whose time is the query
\* time; and, at a time that is no sample time, an axis of the result is
\* not-a-number exactly when the sum of the factors weight / (t - time), the
\* accumulated denominator, is zero.
C22_DefinedEverywhere ==
    fn = Lagrange /\ pc = "queried" =>
        /\ ret.kind = "return"
        /\ ret.val.t = "Position"
        /\ ret.val.v.at = arg
        /\ arg \notin SampleTimesOf(interpolator.v) =>
               \A axis \in Axes :
                   ret.val.v[axis] = NaN
                       <=> FactorSum(interpolator.v, arg, 1).num = 0

\* What does hold of every query: it does not raise, and it returns a
\* position at the query time.
C22_NeverRaises ==
    fn = Lagrange /\ pc = "queried" =>
        /\ ret.kind = "return"
        /\ ret.val.t = "Position"
        /\ ret.val.v.at = arg

----------------------------------------------------------------------------
(* C23 *)

\* Whether two of the samples ps share a time
SharesTime(ps) ==
    \E i, j \in 1..Len(ps) : i # j /\ ps[i].v.at = ps[j].v.at

\* C23, as the specification states it: the construction of a barycentric
\* Lagrange interpolator from two or more samples of which two share a time
\* raises no error and yields an interpolator that answers queries.
C23_DuplicateTimesConstruct ==
    fn = Lagrange /\ Len(given.v) >= 2 /\ SharesTime(given.v) /\ pc # "call" =>
        /\ pc \in {"built", "queried"}
        /\ interpolator # None

----------------------------------------------------------------------------
(* C24 *)

\* The interpolator as its constructor leaves it for the samples ps
Fresh(ps) == BarycentricLagrange3DPositionInterpolator(ps).val

\* C24: after any sequence of get_interpolated_position calls the interpolator
\* holds the sorted samples and the weights that its constructor stored, and
\* the result of the latest call is the result that a newly constructed
\* interpolator gives for the same time: it depends on the time only, not on
\* the calls made before.
C24_QueriesAreReadOnly ==
    fn = Lagrange /\ pc = "queried" =>
        /\ interpolator = Fresh(given.v)
        /\ ret = get_interpolated_position(Fresh(given.v).v, arg)

\* A query at 12, outside the span of three samples given out of time order,
\* left the samples sorted at 0, 4, 10 with the weights 1/40, -1/24, 1/60.
C24_Witness ==
    /\ fn = Lagrange /\ pc = "queried"
    /\ arg = FracOf(12)
    /\ Len(given.v) = 3
    /\ given.v[1].v.at = FracOf(10) /\ given.v[2].v.at = FracOf(0)
    /\ given.v[3].v.at = FracOf(4)
    /\ interpolator.v.positions = << given.v[2], given.v[3], given.v[1] >>
    /\ interpolator.v.weights = << Frac(1, 40), Frac(-1, 24), Frac(1, 60) >>
    /\ ret.kind = "return"

----------------------------------------------------------------------------
(* C25 *)

\* The lists that hold the elements of ps in another order
Reorderings(ps) ==
    { [i \in 1..Len(ps) |-> ps[f[i]]] :
        f \in { g \in [1..Len(ps) -> 1..Len(ps)] :
                  \A i, j \in 1..Len(ps) : g[i] = g[j] => i = j } }

NonDecreasingTimes(ps) ==
    \A i \in 1..(Len(ps) - 1) : FracLeq(ps[i].v.at, ps[i + 1].v.at)

\* C25: the constructor leaves the list it was given as it was; the samples
\* it stores are those of the list, in order of non-decreasing time; and the
\* construction from any permutation of the list yields the same stored
\* samples and weights, and the same answer to the latest query.
C25_SortedPrivateCopy ==
    fn = Lagrange =>
        /\ pc \in {"call", "built", "done"} => arg = given
        /\ interpolator # None =>
               /\ NonDecreasingTimes(interpolator.v.positions)
               /\ interpolator.v.positions \in Reorderings(given.v)
               /\ \A q \in Reorderings(given.v) :
                      /\ BarycentricLagrange3DPositionInterpolator(q) = Return(interpolator)
                      /\ pc = "queried" =>
                             get_interpolated_position(Fresh(q).v, arg) = ret

\* The constructor, given three samples at the times 10, 0, 4, stored them in
\* the order 0, 4, 10 and left the list it was given in the order 10, 0, 4.
C25_Witness ==
    /\ fn = Lagrange /\ pc = "built"
    /\ Len(given.v) = 3
    /\ given.v[1].v.at = FracOf(10) /\ given.v[2].v.at = FracOf(0)
    /\ given.v[3].v.at = FracOf(4)
    /\ arg = given
    /\ interpolator.v.positions = << given.v[2], given.v[3], given.v[1] >>
    /\ interpolator.v.positions # arg.v

----------------------------------------------------------------------------
(* C29 *)

\* The product of (a - t_j) over the samples j.. of ps other than i
RECURSIVE ProductOfDifferences(_, _, _, _)
ProductOfDifferences(ps, a, i, j) ==
    IF j > Len(ps) THEN FracOf(1)
    ELSE IF j = i THEN ProductOfDifferences(ps, a, i, j + 1)
    ELSE FracMul(FracSub(a, ps[j].v.at), ProductOfDifferences(ps, a, i, j + 1))

\* w_i = 1 / prod_{j # i} (t_i - t_j)
W(ps, i) == FracDiv(FracOf(1), ProductOfDifferences(ps, ps[i].v.at, i, 1))

\* f_i = w_i / (t - t_i)
F(ps, i, t) == FracDiv(W(ps, i), FracSub(t, ps[i].v.at))

\* sum_i f_i * v_i over the samples i.., with v_i = 1 for the axis "one"
RECURSIVE SumOfFactors(_, _, _, _)
SumOfFactors(ps, axis, t, i) ==
    IF i > Len(ps) THEN FracOf(0)
    ELSE FracAdd(FracMul(F(ps, i, t), IF axis = "one" THEN FracOf(1) ELSE ps[i].v[axis]),
                 SumOfFactors(ps, axis, t, i + 1))

\* (sum_i f_i * v_i) / (sum_i f_i)
Barycentric(ps, axis, t) ==
    FracDiv(SumOfFactors(ps, axis, t, 1), SumOfFactors(ps, "one", t, 1))

\* sum_i v_i * prod_{j # i} (t - t_j) / (t_i - t_j) over the samples i..: the
\* value at t of the polynomial of degree below Len(ps) through the samples
RECURSIVE Polynomial(_, _, _, _)
Polynomial(ps, axis, t, i) ==
    IF i > Len(ps) THEN FracOf(0)
    ELSE FracAdd(FracMul(ps[i].v[axis],
                         FracDiv(ProductOfDifferences(ps, t, i, 1),
                                 ProductOfDifferences(ps, ps[i].v.at, i, 1))),
                 Polynomial(ps, axis, t, i + 1))

\* C29: for samples of finite coordinates with pairwise distinct times and a
\* query time t that is no sample time, each coordinate of the result of a barycentric Lagrange
\* query equals (sum_i f_i v_i) / (sum_i f_i) with f_i = w_i / (t - t_i) and
\* w_i = 1 / prod_{j # i} (t_i - t_j), and that equals the value at t of the
\* polynomial of degree at most n - 1 through the n samples.
C29_BarycentricIsThePolynomial ==
    fn = Lagrange /\ pc = "queried" /\ ~SharesTime(given.v)
        /\ FiniteSamples(given.v)
        /\ arg \notin SampleTimesOf(interpolator.v) =>
        /\ ret.kind = "return"
        /\ \A axis \in Axes :
               /\ ret.val.v[axis] = Barycentric(given.v, axis, arg)
               /\ ret.val.v[axis] = Polynomial(given.v, axis, arg, 1)

\* The samples (10, 20, 30) at 0, (-7, 3, 5) at 4 and (0, 0, 0) at 10, queried
\* at 7, gave (-67/8, -15/8, -19/8): the value of the parabolas through them.
C29_Witness ==
    /\ fn = Lagrange /\ pc = "queried"
    /\ given.v = << Position(FracOf(10), FracOf(20), FracOf(30), FracOf(0)),
                    Position(FracOf(-7), FracOf(3), FracOf(5), FracOf(4)),
                    Position(FracOf(0), FracOf(0), FracOf(0), FracOf(10)) >>
    /\ arg = FracOf(7)
    /\ ret = Return(Position(Frac(-67, 8), Frac(-15, 8), Frac(-19, 8), FracOf(7)))
    /\ Polynomial(given.v, "x", arg, 1) = Frac(-67, 8)

----------------------------------------------------------------------------
(* C30 *)

\* The document of the case c cut after its third non-blank line
FirstThree(c) == TleText([c EXCEPT !.n = 3])

\* C30: for a document of more than three non-blank lines parse_tle gives
\* the result that it gives for the document cut after its third non-blank
\* line: the first non-blank line is the name, the second and the third are
\* line 1 and line 2, and the later lines do not count.
C30_LaterLinesIgnored ==
    DoneWith("parse_tle") /\ NonBlankCount(given) > 3 =>
        /\ ret = parse_tle(FirstThree(given))
        /\ ret = parse_tle_lines(CaseLines(given)[1], CaseLines(given)[2],
                                 CaseLines(given)[3])
        /\ IsSatellite(ret) => Record.name = StrVal(CaseLines(given)[1])

\* A document of a name line, line 1, line 2 and a fourth non-blank line gave
\* the record of its first three lines, under the name.
C30_Witness ==
    /\ DoneWith("parse_tle")
    /\ NonBlankCount(given) = 4 /\ given.named
    /\ Len(StrippedNonBlank(StrSplitLines(arg.v))) = 4
    /\ IsSatellite(ret)
    /\ Record.name = StrVal(SatelliteName)
    /\ Record.id = IntVal(25544)
    /\ ret = parse_tle(FirstThree(given))

----------------------------------------------------------------------------
(* C28 *)

\* C28: the transform that inverse() returns undoes the transform: applied
\* to the image of a position p it gives p; and the transform that
\* BC.compose(AB) returns maps a position p to the position that BC gives
\* for the position that AB gives for p.
C28_InverseAndCompose ==
    /\ DoneWith("inverse") =>
           \A p \in Points :
               apply_to_position(ret.val, apply_to_position(given.self, p)) = p
    /\ DoneWith("compose") =>
           \A p \in Points :
               apply_to_position(ret.val, p)
                   = apply_to_position(given.self,
                                       apply_to_position(given.other, p))

\* The inverse of the third of a turn about (1, 1, 1) with the translation
\* (1, 2, 3) is the turn back with the translation (-2, -3, -1); it takes the
\* image (0, 6, 3) of the position (4, 0, -1) back to it.
C28_Witness ==
    /\ DoneWith("inverse")
    /\ given.self = Transform(Quaternion(Frac(1, 2), Frac(1, 2), Frac(1, 2), Frac(1, 2)),
                              CartesianCoordinate(FracOf(1), FracOf(2), FracOf(3)))
    /\ ret.val = Transform(Quaternion(Frac(1, 2), Frac(-1, 2), Frac(-1, 2), Frac(-1, 2)),
                           CartesianCoordinate(FracOf(-2), FracOf(-3), FracOf(-1)))
    /\ apply_to_position(given.self,
                         CartesianCoordinate(FracOf(4), FracOf(0), FracOf(-1)))
           = CartesianCoordinate(FracOf(0), FracOf(6), FracOf(3))
    /\ apply_to_position(ret.val, CartesianCoordinate(FracOf(0), FracOf(6), FracOf(3)))
           = CartesianCoordinate(FracOf(4), FracOf(0), FracOf(-1))

\* A composition of two transforms that both turn and translate mapped the
\* position (4, 0, -1) as the two transforms in sequence do.
C28_ComposeWitness ==
    /\ DoneWith("compose")
    /\ given.self.v.rotation = Quaternion(Frac(1, 2), Frac(1, 2), Frac(1, 2), Frac(1, 2))
    /\ given.other.v.rotation = Quaternion(FracOf(0), FracOf(0), FracOf(0), FracOf(1))
    /\ given.self.v.translation = CartesianCoordinate(FracOf(1), FracOf(2), FracOf(3))
    /\ given.other.v.translation = CartesianCoordinate(FracOf(-4), FracOf(0), Frac(5, 2))
    /\ apply_to_position(ret.val, CartesianCoordinate(FracOf(4), FracOf(0), FracOf(-1)))
           = apply_to_position(given.self,
                 apply_to_position(given.other,
                     CartesianCoordinate(FracOf(4), FracOf(0), FracOf(-1))))

----------------------------------------------------------------------------
(* C26 *)

Hermite == "Hermite3DPositionInterpolator"

C26_EndWitness ==
    /\ fn = Hermite /\ pc = "queried"
    /\ interpolator.v.positions[Len(interpolator.v.positions)].v.at = FracOf(10)
    /\ arg = FracOf(10)
    /\ ret = Return(interpolator.v.positions[Len(interpolator.v.positions)])

----------------------------------------------------------------------------
(* C27 *)

\* Whether the window of data starts strictly before it ends and every
\* coded field of data holds a key of its table
WellFormed(data) ==
    /\ data.start < data.end
    /\ data.target_class \in DOMAIN TargetClasses
    /\ data.reference_frame \in DOMAIN ReferenceFrames
    /\ data.rotational_angle_type \in DOMAIN RotationalAngleTypes
    /\ data.center_of_mass_correction \in DOMAIN CenterOfMassCorrections
    /\ data.location_dynamics \in DOMAIN LocationDynamics

\* C27: the validation of header data yields a header only if the window
\* starts strictly before it ends and the target class, reference frame,
\* rotation-angle type, centre-of-mass flag and location/dynamics code are
\* keys of their tables; otherwise it raises a validation error and yields
\* no header.
C27_HeaderIsValidated ==
    DoneWith("model_validate") =>
        /\ ret.kind = "return" => ret.val.t = "CPFHeader" /\ WellFormed(given)
        /\ ~WellFormed(given) => ret = Raise("ValidationError")

\* Data with codes of the tables and a window that ends on the day it
\* starts was rejected with a validation error.
C27_Witness ==
    /\ DoneWith("model_validate")
    /\ given.start = 6 /\ given.end = 6
    /\ given.target_class = 3 /\ given.reference_frame = 2
    /\ given.rotational_angle_type = 2 /\ given.center_of_mass_correction = 1
    /\ given.location_dynamics = 5
    /\ ret = Raise("ValidationError")

\* Data with a window from day 6 to day 7 and codes of the tables gave a
\* header with the labels of the codes.
C27_AcceptedWitness ==
    /\ DoneWith("model_validate")
    /\ given.start = 6 /\ given.end = 7
    /\ ret.kind = "return"
    /\ ret.val.v.target_class = "Synchronous Transponder"
    /\ ret.val.v.center_of_mass_correction = TRUE
    /\ ret.val.v.location_dynamics = "Mars Surface"

====
